---------------------------- MODULE Spec2Model ----------------------------
(***************************************************************************)
(* A model of memory-rag: the in-memory vector store                       *)
(* (src/src/stores/in-memory.ts), the session store registry               *)
(* (src/src/services/store-manager.ts) and the search of the RAG service   *)
(* (src/src/services/rag-service.ts).                                      *)
(*                                                                         *)
(* JavaScript runs one callback at a time, so every action below is one    *)
(* run-to-completion segment of the code: the part of an async method up   *)
(* to its await, the part after it, or a whole synchronous method.         *)
(***************************************************************************)
EXTENDS Integers, Sequences, FiniteSets, TLC

VARIABLES
    stores,         \* the heap of InMemoryVectorStore instances, by instance number
    globalStore,    \* store-manager.ts: let globalStore (Null or an instance number)
    sessionStores,  \* store-manager.ts: const sessionStores (session id -> instance)
    calls,          \* per caller: the async call (addDocument, search) it awaits
    last,           \* the step just taken: the call, its arguments, its outcome
    ghost,          \* per instance: history of the calls completed on it
    given           \* per session: the instance getStore gave out since its last clear

vars == <<stores, globalStore, sessionStores, calls, last, ghost, given>>

--------------------------------------------------------------------------
(* Bounds of the model *)

\* addDocument is not started on an instance whose index, with the adds in
\* flight, has this many entries
MaxDocs == 2

\* no more than this many instances are constructed
MaxInst == 2

(* Program constants *)

DefaultTopK == 5

--------------------------------------------------------------------------
(* Input domains *)

Null == 0

\* The tasks that call into the library; each awaits at most one call at a time
Callers == {"c1", "c2"}

\* Date.now() when an id is generated or a document is stamped
Times == {1000}

\* Math.random().toString(36).substring(2, 11): the random suffix of an id
Rands == {"r1", "r2"}

Contents == {"a"}

Queries == {"q"}

\* What createEmbedding may answer; <<0, 0>> has zero magnitude
Vectors == {<<1, 0>>, <<0, 1>>, <<0, 0>>}

TopKs == {-1, 1, DefaultTopK}

EmptyMeta == "{}"

Metadatas == {EmptyMeta}

\* getStore's sessionId argument: omitted, the empty string, 'global', a name
Omitted == "undefined"

SessionNames == {"s1", "s2"}

SessionArgs == {Omitted, "", "global"} \cup SessionNames

\* The embedding capability handed to getStore or to the constructor
Providers == {"p1", "p2"}

Instances == 1..Len(stores)

--------------------------------------------------------------------------
(* Sequence helpers: the JavaScript array methods the code uses *)

\* Array.prototype.indexOf: the first position of x, or 0 when absent (-1 in JS)
IndexOf(s, x) ==
    IF \E i \in 1..Len(s) : s[i] = x
    THEN CHOOSE i \in 1..Len(s) : s[i] = x /\ \A j \in 1..(i - 1) : s[j] # x
    ELSE 0

\* Array.prototype.splice(pos, 1), pos counted from 1
Splice1(s, pos) == [i \in 1..(Len(s) - 1) |-> IF i < pos THEN s[i] ELSE s[i + 1]]

\* Array.prototype.slice(0, k): a negative k counts from the end
Slice0(s, k) ==
    LET end == IF k < 0 THEN (IF Len(s) + k < 0 THEN 0 ELSE Len(s) + k)
               ELSE (IF k > Len(s) THEN Len(s) ELSE k)
    IN  SubSeq(s, 1, end)

\* Array.prototype.slice(start, end), positions counted from 0: a negative
\* position counts from the end, and both are clamped to the array
Slice(s, start, end) ==
    LET len == Len(s)
        from == IF start < 0 THEN (IF len + start < 0 THEN 0 ELSE len + start)
                ELSE (IF start > len THEN len ELSE start)
        to == IF end < 0 THEN (IF len + end < 0 THEN 0 ELSE len + end)
              ELSE (IF end > len THEN len ELSE end)
    IN  [k \in 1..(IF to > from THEN to - from ELSE 0) |-> s[from + k]]

\* A string is the sequence of its characters.  String.prototype.split(' '):
\* the pieces between the spaces, from position i on, `piece` being the piece
\* begun so far; a string without a space, the empty one included, is one piece
RECURSIVE SplitFrom(_, _, _)
SplitFrom(str, i, piece) ==
    IF i > Len(str) THEN <<piece>>
    ELSE IF str[i] = " " THEN <<piece>> \o SplitFrom(str, i + 1, <<>>)
    ELSE SplitFrom(str, i + 1, Append(piece, str[i]))

Split(str) == SplitFrom(str, 1, <<>>)

\* Array.prototype.join(' '): the empty array gives the empty string
RECURSIVE Join(_)
Join(pieces) ==
    IF Len(pieces) = 0 THEN <<>>
    ELSE IF Len(pieces) = 1 THEN pieces[1]
    ELSE pieces[1] \o <<" ">> \o Join(Tail(pieces))

\* The elements of an array
Range(s) == {s[i] : i \in 1..Len(s)}

\* Map.prototype.set
MapSet(m, k, v) == [x \in (DOMAIN m) \cup {k} |-> IF x = k THEN v ELSE m[x]]

\* Map.prototype.delete
MapDelete(m, k) == [x \in (DOMAIN m) \ {k} |-> m[x]]

EmptyMap == [x \in {} |-> Null]

--------------------------------------------------------------------------
(* InMemoryVectorStore: the pure parts *)

\* new InMemoryVectorStore(embeddingProvider): empty map, empty index
NewStore(p) ==
    [documents |-> EmptyMap,
     index |-> [embeddings |-> <<>>, ids |-> <<>>],
     embeddingProvider |-> p]

\* a.reduce((sum, val, i) => sum + val * (b[i] ?? 0), 0)
RECURSIVE DotFrom(_, _, _)
DotFrom(a, b, i) ==
    IF i > Len(a) THEN 0
    ELSE a[i] * (IF i <= Len(b) THEN b[i] ELSE 0) + DotFrom(a, b, i + 1)

Dot(a, b) == DotFrom(a, b, 1)

\* cosineSimilarity(a, b) = dot / (sqrt(a.a) * sqrt(b.b)).  The model has no
\* square root: a score is kept as the fraction n / d with
\*     n = sign(dot) * dot^2,   d = (a.a) * (b.b),
\* the signed square of the cosine, which orders and equates scores exactly as
\* the cosine does.  d = 0 stands for the NaN that 0 / 0 gives in JavaScript.
cosineSimilarity(a, b) ==
    LET dotProduct == Dot(a, b)
        sq == dotProduct * dotProduct
    IN  [n |-> IF dotProduct < 0 THEN 0 - sq ELSE sq,
         d |-> Dot(a, a) * Dot(b, b)]

IsNaN(x) == x.d = 0

\* x - y as the comparator sees it: "neg", "zero", "pos" or "nan"
ScoreDiff(x, y) ==
    IF IsNaN(x) \/ IsNaN(y) THEN "nan"
    ELSE IF x.n * y.d < y.n * x.d THEN "neg"
    ELSE IF x.n * y.d > y.n * x.d THEN "pos"
    ELSE "zero"

\* The comparator of scores.sort: (a, b) => b.score - a.score.  A negative result
\* puts a before b; sort reads a NaN result as +0 (the two compare equal).
Compare(a, b) ==
    LET v == ScoreDiff(b.score, a.score)
    IN  IF v = "nan" THEN "zero" ELSE v

\* Insertion of x behind every element that does not sort after it
RECURSIVE InsertStable(_, _)
InsertStable(sorted, x) ==
    IF sorted = <<>> THEN <<x>>
    ELSE IF Compare(x, Head(sorted)) = "neg" THEN <<x>> \o sorted
    ELSE <<Head(sorted)>> \o InsertStable(Tail(sorted), x)

RECURSIVE StableSort(_)
StableSort(s) ==
    IF s = <<>> THEN <<>>
    ELSE InsertStable(StableSort(SubSeq(s, 1, Len(s) - 1)), s[Len(s)])

\* Whether the comparator is consistent on s ("compares equal" is transitive):
\* it is unless a NaN score, which compares equal to everything, stands beside
\* two scores that differ
ConsistentOn(s) ==
    \/ \A i \in 1..Len(s) : ~IsNaN(s[i].score)
    \/ \A i, j \in 1..Len(s) :
          (~IsNaN(s[i].score) /\ ~IsNaN(s[j].score)) => Compare(s[i], s[j]) = "zero"

\* Array.prototype.sort: stable for a consistent comparator; with an
\* inconsistent one (NaN among differing scores) the order is
\* implementation-defined, so every permutation is a possible outcome.
SortOutcomes(s) ==
    IF ConsistentOn(s) THEN {StableSort(s)}
    ELSE {[i \in 1..Len(s) |-> s[p[i]]] : p \in Permutations(1..Len(s))}

\* addDocument, lines 51-53: documents.set, index.embeddings.push, index.ids.push
InsertDocument(st, document) ==
    [st EXCEPT !.documents = MapSet(st.documents, document.id, document),
               !.index.embeddings = Append(st.index.embeddings, document.embedding),
               !.index.ids = Append(st.index.ids, document.id)]

\* A variant of removeDocumentSync that splices the last index entry instead of
\* the entry of the id
removeDocumentSync_SplicesLast(st, id) ==
    IF id \notin DOMAIN st.documents THEN [store |-> st, ret |-> FALSE]
    ELSE
        LET indexPosition == Len(st.index.ids)
            deleted == [st EXCEPT !.documents = MapDelete(st.documents, id)]
        IN  [store |->
                IF indexPosition # 0
                THEN [deleted EXCEPT
                        !.index.embeddings = Splice1(st.index.embeddings, indexPosition),
                        !.index.ids = Splice1(st.index.ids, indexPosition)]
                ELSE deleted,
             ret |-> TRUE]

\* removeDocumentSync: the store after the call, and what it returns
removeDocumentSync(st, id) ==
    IF id \notin DOMAIN st.documents THEN [store |-> st, ret |-> FALSE]
    ELSE
        LET indexPosition == IndexOf(st.index.ids, id)
            deleted == [st EXCEPT !.documents = MapDelete(st.documents, id)]
        IN  [store |->
                IF indexPosition # 0
                THEN [deleted EXCEPT
                        !.index.embeddings = Splice1(st.index.embeddings, indexPosition),
                        !.index.ids = Splice1(st.index.ids, indexPosition)]
                ELSE deleted,
             ret |-> TRUE]

\* A variant of clear that empties the document map and leaves the index
clear_KeepsIndex(st) == [st EXCEPT !.documents = EmptyMap]

\* clear()
clear(st) ==
    [st EXCEPT !.documents = EmptyMap,
               !.index = [embeddings |-> <<>>, ids |-> <<>>]]

size(st) == Cardinality(DOMAIN st.documents)

hasDocument(st, id) == id \in DOMAIN st.documents

\* search, lines 84-93: one {id, score} per index entry
ScoresOf(st, queryEmbedding) ==
    [i \in 1..Len(st.index.embeddings) |->
        [id |-> st.index.ids[i],
         score |-> cosineSimilarity(queryEmbedding, st.index.embeddings[i])]]

\* search, lines 96-109: the first topK entries, each with its document;
\* "error" when a ranked id has no document
TopResults(st, sorted, topK) ==
    LET topResults == Slice0(sorted, topK)
    IN  IF \E i \in 1..Len(topResults) : topResults[i].id \notin DOMAIN st.documents
        THEN [ok |-> FALSE, results |-> <<>>]
        ELSE [ok |-> TRUE,
              results |-> [i \in 1..Len(topResults) |->
                  LET doc == st.documents[topResults[i].id]
                  IN  [id |-> doc.id, content |-> doc.content,
                       score |-> topResults[i].score, metadata |-> doc.metadata]]]

\* new Blob([content]).size: the UTF-8 length; the contents of the model are ASCII
ByteLength(content) == Len(content)

RECURSIVE TotalSize(_, _)
TotalSize(documents, ids) ==
    IF ids = {} THEN 0
    ELSE LET id == CHOOSE x \in ids : TRUE
         IN  ByteLength(documents[id].content) + TotalSize(documents, ids \ {id})

\* A variant of getStats that reports the newest timestamp as the oldest too
getStats_OldestIsNewest(st) ==
    LET timestamps == {st.documents[id].timestamp : id \in DOMAIN st.documents}
        newest == IF timestamps # {}
                  THEN CHOOSE x \in timestamps : \A y \in timestamps : x >= y
                  ELSE Null
    IN  [documentCount |-> size(st),
         totalSize |-> TotalSize(st.documents, DOMAIN st.documents),
         oldestDocument |-> newest,
         newestDocument |-> newest]

\* getStats(): Null stands for the null of oldestDocument and newestDocument
getStats(st) ==
    LET timestamps == {st.documents[id].timestamp : id \in DOMAIN st.documents}
    IN  [documentCount |-> size(st),
         totalSize |-> TotalSize(st.documents, DOMAIN st.documents),
         oldestDocument |-> IF timestamps # {}
                            THEN CHOOSE x \in timestamps : \A y \in timestamps : x <= y
                            ELSE Null,
         newestDocument |-> IF timestamps # {}
                            THEN CHOOSE x \in timestamps : \A y \in timestamps : x >= y
                            ELSE Null]

NoStats == [documentCount |-> 0, totalSize |-> 0, oldestDocument |-> Null,
            newestDocument |-> Null]

--------------------------------------------------------------------------
(* The state machine *)

\* addDocument line 40: `doc_${Date.now()}_${Math.random()...}`
GenerateId(t, r) == <<t, r>>

NoId == <<-1, "none">>

\* An id no addDocument has generated (the tests' 'non-existent-id')
UnknownId == <<-1, "non-existent-id">>

AllIds == {GenerateId(t, r) : t \in Times, r \in Rands} \cup {UnknownId}

Idle == [op |-> "idle", store |-> Null, id |-> NoId, content |-> "",
         metadata |-> EmptyMeta, topK |-> 0]

\* `last` names the call (op), how far it got (phase: "start", "returned",
\* "raised"), the instance it ran on or returned (inst), its arguments
\* (sessionId, id, topK), what it returned (ok, id, results) and how many times it
\* called createEmbedding (nEmbed); for the registry also the capability argument
\* (provider) and the instances whose contents the call cleared (cleared); for
\* RAGService.search the keys of the envelope it returned (keys), the envelope's
\* success (ok), message, results, answer and stats, and how many times it called
\* generateText (nGenerate); for RAGService.addDocument and bulkAddDocuments the
\* arguments (input: the entries given, for addDocument the one entry made of
\* content and metadata; useChunks, chunkSize), the envelope's documentIds, the
\* content and metadata of every document the call has had the store insert
\* (added), the store's size() when the call began (sizeBefore) and whether the
\* step is the rejection of a createEmbedding call (rejected); for addDocument
\* whether clearSession took the instance out of the registry while the call was
\* in flight (stale); for the tool's onInput the totalDocuments it returned
NoLast == [op |-> "none", phase |-> "none", inst |-> Null, sessionId |-> "",
           id |-> NoId, topK |-> 0, ok |-> FALSE, results |-> <<>>,
           nEmbed |-> 0, provider |-> "", cleared |-> {}, keys |-> {},
           message |-> "", answer |-> "", stats |-> NoStats, nGenerate |-> 0,
           input |-> <<>>, useChunks |-> FALSE, chunkSize |-> 0,
           documentIds |-> <<>>, added |-> <<>>, sizeBefore |-> 0,
           rejected |-> FALSE, stale |-> FALSE, totalDocuments |-> 0]

Last(op, phase, inst) == [NoLast EXCEPT !.op = op, !.phase = phase, !.inst = inst]

\* `ghost` of an instance: net is the number of completed adds minus the number
\* of removes that returned true, live the ids a completed add returned and no
\* remove has taken since (both kept until the first clear), returned every id a
\* completed add returned, cleared whether the store was ever cleared
NewGhost == [net |-> 0, live |-> {}, returned |-> {}, cleared |-> FALSE]

\* The addDocument calls in flight on instance s
PendingAdds(s) == {c \in Callers : calls[c].op = "add" /\ calls[c].store = s}

\* A variant of capabilityRejected that calls the capability once more
capabilityRejected_Retries(n) == n + 1

\* A capability call (createEmbedding at in-memory.ts lines 41 and 82,
\* generateText at rag-service.ts line 52) rejects after the operation has called
\* the capability n times: the await stands in no loop and no handler calls the
\* capability again, so n calls is what the operation has made when it ends
capabilityRejected(n) == n

\* A variant of addDocumentBeforeAwait that reserves the index slot for the id
\* before the embedding has arrived
addDocumentBeforeAwait_Reserving(st, id, content) ==
    [st EXCEPT !.index.ids = Append(@, id)]

\* addDocument up to its await (lines 40-41): the id is generated, createEmbedding
\* is called, and the store is as it was.  This is also what is left of the store
\* when createEmbedding rejects, since nothing runs after the await then.
addDocumentBeforeAwait(st, id, content) == st

\* addDocument after its await (lines 43-55)
addDocumentAfterAwait(st, id, content, embedding, metadata, timestamp) ==
    InsertDocument(st, [id |-> id, content |-> content, embedding |-> embedding,
                        metadata |-> metadata, timestamp |-> timestamp])

AddStart(c, s, content, metadata, t, r) ==
    /\ calls[c].op = "idle"
    /\ LET id == GenerateId(t, r)
       IN  /\ calls' = [calls EXCEPT ![c] =
                [op |-> "add", store |-> s, id |-> id, content |-> content,
                 metadata |-> metadata, topK |-> 0, stale |-> FALSE]]
           /\ stores' = [stores EXCEPT ![s] = addDocumentBeforeAwait(@, id, content)]
           /\ last' = [Last("addDocument", "start", s) EXCEPT !.nEmbed = 1]
    /\ UNCHANGED <<globalStore, sessionStores, ghost, given>>

\* createEmbedding resolves with `embedding`; addDocument inserts and returns the id
AddComplete(c, embedding, t) ==
    /\ calls[c].op = "add"
    /\ LET call == calls[c]
           s == call.store
       IN  /\ stores' = [stores EXCEPT ![s] =
                    addDocumentAfterAwait(@, call.id, call.content, embedding,
                                          call.metadata, t)]
           /\ last' = [Last("addDocument", "returned", s) EXCEPT
                            !.id = call.id, !.nEmbed = 1, !.stale = call.stale]
           /\ ghost' = [ghost EXCEPT ![s] =
                    IF @.cleared THEN [@ EXCEPT !.returned = @ \cup {call.id}]
                    ELSE [@ EXCEPT !.net = @ + 1, !.live = @ \cup {call.id},
                                   !.returned = @ \cup {call.id}]]
    /\ calls' = [calls EXCEPT ![c] = Idle]
    /\ UNCHANGED <<globalStore, sessionStores, given>>

\* createEmbedding rejects: the rejection propagates out of addDocument
AddFail(c) ==
    /\ calls[c].op = "add"
    /\ stores' = [stores EXCEPT ![calls[c].store] =
                    addDocumentBeforeAwait(@, calls[c].id, calls[c].content)]
    /\ last' = [Last("addDocument", "raised", calls[c].store) EXCEPT
                    !.nEmbed = capabilityRejected(1)]
    /\ calls' = [calls EXCEPT ![c] = Idle]
    /\ UNCHANGED <<globalStore, sessionStores, ghost, given>>

\* removeDocument(id): synchronous, wrapped in a resolved promise
RemoveDocument(s, id) ==
    /\ LET r == removeDocumentSync(stores[s], id)
       IN  /\ stores' = [stores EXCEPT ![s] = r.store]
           /\ last' = [Last("removeDocument", "returned", s) EXCEPT
                            !.id = id, !.ok = r.ret]
           /\ ghost' = IF r.ret /\ ~ghost[s].cleared
                       THEN [ghost EXCEPT ![s].net = @ - 1, ![s].live = @ \ {id}]
                       ELSE ghost
    /\ UNCHANGED <<globalStore, sessionStores, calls, given>>

GhostCleared(gh, cleared) ==
    [i \in 1..Len(gh) |->
        IF i \in cleared THEN [gh[i] EXCEPT !.cleared = TRUE, !.net = 0, !.live = {}]
        ELSE gh[i]]

Clear(s) ==
    /\ stores' = [stores EXCEPT ![s] = clear(@)]
    /\ last' = Last("clear", "returned", s)
    /\ ghost' = GhostCleared(ghost, {s})
    /\ UNCHANGED <<globalStore, sessionStores, calls, given>>

\* getStats(): a synchronous read
GetStats(s) ==
    /\ last' = [Last("getStats", "returned", s) EXCEPT !.stats = getStats(stores[s])]
    /\ UNCHANGED <<stores, globalStore, sessionStores, calls, ghost, given>>

\* A variant of searchBeforeAwait without the check for an empty store
searchBeforeAwait_NoEmptyCheck(st) == [phase |-> "start", nEmbed |-> 1]

\* search, lines 78-82: an empty store answers [] at once, without calling
\* createEmbedding; any other calls it and awaits
searchBeforeAwait(st) ==
    IF size(st) = 0
    THEN [phase |-> "returned", nEmbed |-> 0]
    ELSE [phase |-> "start", nEmbed |-> 1]

\* A variant of searchAfterAwait that sorts the index itself, last entry first
searchAfterAwait_SortsIndex(st) ==
    [st EXCEPT
        !.index.ids = [i \in 1..Len(@) |-> @[Len(@) + 1 - i]],
        !.index.embeddings = [i \in 1..Len(@) |-> @[Len(@) + 1 - i]]]

\* The store after search has ranked (lines 84-109): map, sort and slice work on
\* arrays of their own, and nothing is assigned to documents or index
searchAfterAwait(st) == st

SearchStart(c, s, query, topK) ==
    /\ calls[c].op = "idle"
    /\ LET b == searchBeforeAwait(stores[s])
       IN  /\ calls' = IF b.phase = "returned" THEN calls
                       ELSE [calls EXCEPT ![c] =
                                [op |-> "search", store |-> s, id |-> NoId,
                                 content |-> query, metadata |-> EmptyMeta,
                                 topK |-> topK]]
           /\ last' = [Last("search", b.phase, s) EXCEPT
                            !.topK = topK, !.nEmbed = b.nEmbed]
    /\ UNCHANGED <<stores, globalStore, sessionStores, ghost, given>>

\* createEmbedding(query) resolves: rank, cut, attach the documents (lines 84-109)
SearchComplete(c, queryEmbedding) ==
    /\ calls[c].op = "search"
    /\ LET st == stores[calls[c].store]
       IN  \E sorted \in SortOutcomes(ScoresOf(st, queryEmbedding)) :
              LET r == TopResults(st, sorted, calls[c].topK)
              IN  last' = [Last("search", IF r.ok THEN "returned" ELSE "raised",
                                calls[c].store) EXCEPT
                                !.topK = calls[c].topK, !.results = r.results,
                                !.nEmbed = 1]
    /\ stores' = [stores EXCEPT ![calls[c].store] = searchAfterAwait(@)]
    /\ calls' = [calls EXCEPT ![c] = Idle]
    /\ UNCHANGED <<globalStore, sessionStores, ghost, given>>

\* createEmbedding(query) rejects
SearchFail(c) ==
    /\ calls[c].op = "search"
    /\ last' = [Last("search", "raised", calls[c].store) EXCEPT
                    !.topK = calls[c].topK, !.nEmbed = capabilityRejected(1)]
    /\ calls' = [calls EXCEPT ![c] = Idle]
    /\ UNCHANGED <<stores, globalStore, sessionStores, ghost, given>>

--------------------------------------------------------------------------
(* rag-service.ts: RAGService.search *)

\* What generateText may answer
Answers == {"an answer"}

\* answer: null
NullAnswer == "null"

\* The message of the error a failing capability or store.search raises
EmbeddingError == "embedding failed"

GenerationError == "generation failed"

DocumentNotFound == "Document not found"

\* 'Error during search: ' + error.message
ErrorDuringSearch(errorMessage) ==
    IF errorMessage = EmbeddingError THEN "Error during search: embedding failed"
    ELSE IF errorMessage = GenerationError THEN "Error during search: generation failed"
    ELSE "Error during search: Document not found"

\* An envelope as `last` records it, before its fields are filled in
Envelope(s, topK) == [Last("ragSearch", "returned", s) EXCEPT !.topK = topK]

\* A variant of searchCatch that lets the error through to the caller
searchCatch_Rethrows(s, topK, errorMessage) ==
    [Envelope(s, topK) EXCEPT !.phase = "raised", !.message = errorMessage]

\* search, lines 79-84: the catch block
searchCatch(s, topK, errorMessage) ==
    [Envelope(s, topK) EXCEPT
        !.ok = FALSE, !.keys = {"success", "message"},
        !.message = ErrorDuringSearch(errorMessage)]

\* A variant of searchNoDocuments that has an answer generated all the same
searchNoDocuments_Generates(s, topK) ==
    [Envelope(s, topK) EXCEPT
        !.ok = TRUE, !.keys = {"success", "message", "results", "answer"},
        !.message = "No documents found", !.results = <<>>,
        !.answer = "an answer", !.nGenerate = 1]

\* search, lines 37-44: the envelope for zero results
searchNoDocuments(s, topK) ==
    [Envelope(s, topK) EXCEPT
        !.ok = TRUE, !.keys = {"success", "message", "results", "answer"},
        !.message = "No documents found", !.results = <<>>, !.answer = NullAnswer]

\* A variant of searchSuccess that returns the results last to first
searchSuccess_Reversed(s, topK, results, answer, st) ==
    [Envelope(s, topK) EXCEPT
        !.ok = TRUE, !.keys = {"success", "results", "answer", "stats"},
        !.results = [i \in 1..Len(results) |-> results[Len(results) + 1 - i]],
        !.answer = answer, !.stats = getStats(st)]

\* search, lines 68-78: the envelope for results, read with the store's stats
searchSuccess(s, topK, results, answer, st) ==
    [Envelope(s, topK) EXCEPT
        !.ok = TRUE, !.keys = {"success", "results", "answer", "stats"},
        !.results = results, !.answer = answer, !.stats = getStats(st)]

\* search up to `await store.search(query, topK)`: store.search answers [] at
\* once for an empty store, and the zero-result envelope follows; otherwise it
\* has called createEmbedding and search awaits
RagSearchStart(c, s, query, topK, generateAnswer) ==
    /\ calls[c].op = "idle"
    /\ LET b == searchBeforeAwait(stores[s])
       IN  IF b.phase = "returned"
           THEN /\ last' = searchNoDocuments(s, topK)
                /\ calls' = calls
           ELSE /\ last' = [Last("ragSearch", "start", s) EXCEPT
                                !.topK = topK, !.nEmbed = 1]
                /\ calls' = [calls EXCEPT ![c] =
                        [op |-> "ragSearch", store |-> s, id |-> NoId,
                         content |-> query, metadata |-> EmptyMeta, topK |-> topK,
                         generateAnswer |-> generateAnswer, results |-> <<>>]]
    /\ UNCHANGED <<stores, globalStore, sessionStores, ghost, given>>

\* createEmbedding(query) resolves and store.search ranks: it raises (a ranked id
\* without document), or yields no result, or yields results.  With results,
\* search resumes in a later microtask: it then calls generateText and awaits
\* (nothing it does up to there reads the store), or, with generateAnswer
\* false, builds the envelope, for which it reads the store's stats
\* (RagSearchReturn)
RagSearchRanked(c, queryEmbedding) ==
    /\ calls[c].op = "ragSearch"
    /\ LET call == calls[c]
           s == call.store
           st == stores[s]
       IN  \E sorted \in SortOutcomes(ScoresOf(st, queryEmbedding)) :
              LET r == TopResults(st, sorted, call.topK)
              IN  IF ~r.ok
                  THEN /\ last' = [searchCatch(s, call.topK, DocumentNotFound)
                                        EXCEPT !.nEmbed = 1]
                       /\ calls' = [calls EXCEPT ![c] = Idle]
                  ELSE IF Len(r.results) = 0
                  THEN /\ last' = [searchNoDocuments(s, call.topK) EXCEPT !.nEmbed = 1]
                       /\ calls' = [calls EXCEPT ![c] = Idle]
                  ELSE IF call.generateAnswer
                  THEN /\ last' = [Last("ragSearch", "start", s) EXCEPT
                                        !.topK = call.topK, !.nEmbed = 1,
                                        !.nGenerate = 1]
                       /\ calls' = [calls EXCEPT ![c] =
                                [call EXCEPT !.op = "ragGenerate",
                                             !.results = r.results]]
                  ELSE /\ last' = [Last("ragSearch", "start", s) EXCEPT
                                        !.topK = call.topK, !.nEmbed = 1]
                       /\ calls' = [calls EXCEPT ![c] =
                                [call EXCEPT !.op = "ragReturn",
                                             !.results = r.results]]
    /\ stores' = [stores EXCEPT ![calls[c].store] = searchAfterAwait(@)]
    /\ UNCHANGED <<globalStore, sessionStores, ghost, given>>

\* search resumes with the results of store.search and generateAnswer false:
\* lines 68-78, answer null
RagSearchReturn(c) ==
    /\ calls[c].op = "ragReturn"
    /\ last' = [searchSuccess(calls[c].store, calls[c].topK, calls[c].results,
                              NullAnswer, stores[calls[c].store])
                    EXCEPT !.nEmbed = 1]
    /\ calls' = [calls EXCEPT ![c] = Idle]
    /\ UNCHANGED <<stores, globalStore, sessionStores, ghost, given>>

\* createEmbedding(query) rejects: store.search rejects, the catch block answers
RagEmbedFail(c) ==
    /\ calls[c].op = "ragSearch"
    /\ last' = [searchCatch(calls[c].store, calls[c].topK, EmbeddingError)
                    EXCEPT !.nEmbed = capabilityRejected(1)]
    /\ calls' = [calls EXCEPT ![c] = Idle]
    /\ UNCHANGED <<stores, globalStore, sessionStores, ghost, given>>

\* generateText resolves with `answer`
RagGenerateDone(c, answer) ==
    /\ calls[c].op = "ragGenerate"
    /\ last' = [searchSuccess(calls[c].store, calls[c].topK, calls[c].results,
                              answer, stores[calls[c].store])
                    EXCEPT !.nEmbed = 1, !.nGenerate = 1]
    /\ calls' = [calls EXCEPT ![c] = Idle]
    /\ UNCHANGED <<stores, globalStore, sessionStores, ghost, given>>

\* generateText rejects: the catch block answers
RagGenerateFail(c) ==
    /\ calls[c].op = "ragGenerate"
    /\ last' = [searchCatch(calls[c].store, calls[c].topK, GenerationError)
                    EXCEPT !.nEmbed = 1, !.nGenerate = capabilityRejected(1)]
    /\ calls' = [calls EXCEPT ![c] = Idle]
    /\ UNCHANGED <<stores, globalStore, sessionStores, ghost, given>>

--------------------------------------------------------------------------
(* rag-service.ts: RAGService.addDocument and RAGService.bulkAddDocuments *)

\* What Math.floor and Math.ceil answer when the quotient is no finite number
NaN == "NaN"

Infinity == "Infinity"

\* Math.floor(i / chunkSize), line 103.  The loop counter i is 0 or a multiple of
\* chunkSize, so the quotient is never negative; 0 / 0 is NaN.
ChunkIndexOf(i, chunkSize) ==
    IF chunkSize > 0 THEN i \div chunkSize
    ELSE IF chunkSize < 0 THEN (0 - i) \div (0 - chunkSize)
    ELSE NaN

\* Math.ceil(words.length / chunkSize), line 104; words.length is at least 1
TotalChunksOf(length, chunkSize) ==
    IF chunkSize > 0 THEN (length + chunkSize - 1) \div chunkSize
    ELSE IF chunkSize < 0 THEN 0 - (length \div (0 - chunkSize))
    ELSE Infinity

\* words.slice(i, i + chunkSize).join(' '), line 100
ChunkOf(words, i, chunkSize) == Join(Slice(words, i, i + chunkSize))

\* { ...metadata, chunkIndex, totalChunks }, lines 101-105
ChunkMetadata(metadata, i, length, chunkSize) ==
    MapSet(MapSet(metadata, "chunkIndex", ChunkIndexOf(i, chunkSize)),
           "totalChunks", TotalChunksOf(length, chunkSize))

\* `if (doc.content)`, line 128: of all strings only the empty one is falsy
Truthy(content) == content # <<>>

\* `doc.metadata || {}`, line 129
MetadataOf(doc) == IF "metadata" \in DOMAIN doc THEN doc.metadata ELSE EmptyMap

\* The position of the first entry from position k on that the loop of
\* bulkAddDocuments does not skip, Len(documents) + 1 when it skips them all
RECURSIVE NextTruthy(_, _)
NextTruthy(documents, k) ==
    IF k > Len(documents) THEN k
    ELSE IF Truthy(documents[k].content) THEN k
    ELSE NextTruthy(documents, k + 1)

\* `Added ${addedIds.length} document(s)`
AddedMessage(n) == "Added " \o ToString(n) \o " document(s)"

\* The ghost of an instance after addDocument has inserted and returned id
GhostAdded(gh, id) ==
    IF gh.cleared THEN [gh EXCEPT !.returned = @ \cup {id}]
    ELSE [gh EXCEPT !.net = @ + 1, !.live = @ \cup {id}, !.returned = @ \cup {id}]

\* What `last` says of the ingestion call `call`, before the outcome is filled in
IngestLast(call, phase) ==
    [Last(call.op, phase, call.store) EXCEPT
        !.input = call.input, !.useChunks = call.useChunks,
        !.chunkSize = call.chunkSize, !.added = call.added,
        !.sizeBefore = call.sizeBefore, !.nEmbed = 1]

\* A variant of ingestRejected that catches the error and answers with an
\* envelope, as search does
ingestRejected_Caught(call) ==
    [IngestLast(call, "returned") EXCEPT
        !.ok = FALSE, !.keys = {"success", "message"}, !.message = EmbeddingError]

\* `await store.addDocument(...)` rejects (lines 101, 109, 129): neither method
\* has a try block, so the rejection is the outcome of the call
ingestRejected(call) ==
    [IngestLast(call, "raised") EXCEPT !.message = EmbeddingError]

\* Lines 113-118 and 134-139: the envelope, with the store's stats as they are
\* when it is built
ingestResult(call, st) ==
    [IngestLast(call, "returned") EXCEPT
        !.ok = TRUE, !.keys = {"success", "documentIds", "message", "stats"},
        !.documentIds = call.addedIds,
        !.message = AddedMessage(Len(call.addedIds)), !.stats = getStats(st)]

\* The call record of an ingestion call as it begins; once it awaits
\* store.addDocument(chunk, chunkMetadata), `id` is the id the store has
\* generated and i the loop counter (addDocument) or the position of the entry
\* (bulkAddDocuments)
IngestCall(op, s, input, useChunks, chunkSize) ==
    [op |-> op, store |-> s, id |-> NoId, content |-> "", metadata |-> EmptyMeta,
     topK |-> 0, input |-> input, useChunks |-> useChunks,
     chunkSize |-> chunkSize, i |-> 0, chunk |-> <<>>, chunkMetadata |-> EmptyMap,
     addedIds |-> <<>>, added |-> <<>>, sizeBefore |-> size(stores[s])]

\* The call record once the document awaited has been inserted and its id pushed
Pushed(call) ==
    [call EXCEPT !.addedIds = Append(@, call.id),
                 !.added = Append(@, [content |-> call.chunk,
                                      metadata |-> call.chunkMetadata])]

\* The store once the document the call awaits has been inserted with
\* `embedding` (in-memory.ts lines 43-55)
Inserted(call, embedding, t) ==
    addDocumentAfterAwait(stores[call.store], call.id, call.chunk, embedding,
                          call.chunkMetadata, t)

\* addDocument up to its first await.  With useChunks the content is split and
\* the loop entered (split returns at least one piece, so 0 < words.length);
\* store.addDocument generates the id and calls createEmbedding.
RagAddStart(c, s, content, metadata, useChunks, chunkSize, t, r) ==
    /\ calls[c].op = "idle"
    /\ LET words == Split(content)
           chunk == IF useChunks THEN ChunkOf(words, 0, chunkSize) ELSE content
           chunkMetadata ==
               IF useChunks THEN ChunkMetadata(metadata, 0, Len(words), chunkSize)
               ELSE metadata
           id == GenerateId(t, r)
           input == <<[content |-> content, metadata |-> metadata]>>
       IN  /\ calls' = [calls EXCEPT ![c] =
                [IngestCall("ragAdd", s, input, useChunks, chunkSize) EXCEPT
                    !.id = id, !.chunk = chunk, !.chunkMetadata = chunkMetadata]]
           /\ stores' = [stores EXCEPT ![s] = addDocumentBeforeAwait(@, id, chunk)]
           /\ last' = [Last("ragAdd", "start", s) EXCEPT !.nEmbed = 1]
    /\ UNCHANGED <<globalStore, sessionStores, ghost, given>>

\* Whether the loop of addDocument goes round once more after the chunk at i
MoreChunks(call) ==
    /\ call.useChunks
    /\ call.i + call.chunkSize < Len(Split(call.input[1].content))

\* createEmbedding resolves, the store inserts the chunk and returns its id, the
\* id is pushed, i += chunkSize, and the loop goes on to the next chunk
RagAddNextChunk(c, embedding, t, r) ==
    /\ calls[c].op = "ragAdd"
    /\ MoreChunks(calls[c])
    /\ LET call == calls[c]
           s == call.store
           words == Split(call.input[1].content)
           i == call.i + call.chunkSize
           chunk == ChunkOf(words, i, call.chunkSize)
           chunkMetadata == ChunkMetadata(call.input[1].metadata, i, Len(words),
                                          call.chunkSize)
           id == GenerateId(t, r)
       IN  /\ stores' = [stores EXCEPT ![s] =
                    addDocumentBeforeAwait(Inserted(call, embedding, t), id, chunk)]
           /\ calls' = [calls EXCEPT ![c] =
                    [Pushed(call) EXCEPT !.i = i, !.id = id, !.chunk = chunk,
                                         !.chunkMetadata = chunkMetadata]]
           /\ ghost' = [ghost EXCEPT ![s] = GhostAdded(@, call.id)]
           /\ last' = [Last("ragAdd", "start", s) EXCEPT !.nEmbed = 1]
    /\ UNCHANGED <<globalStore, sessionStores, given>>

\* createEmbedding resolves, the store inserts the last chunk (or the whole
\* content) and returns its id, the loop ends and the envelope is returned
RagAddReturn(c, embedding, t) ==
    /\ calls[c].op = "ragAdd"
    /\ ~MoreChunks(calls[c])
    /\ LET call == calls[c]
           s == call.store
           st == Inserted(call, embedding, t)
       IN  /\ stores' = [stores EXCEPT ![s] = st]
           /\ ghost' = [ghost EXCEPT ![s] = GhostAdded(@, call.id)]
           /\ last' = ingestResult(Pushed(call), st)
    /\ calls' = [calls EXCEPT ![c] = Idle]
    /\ UNCHANGED <<globalStore, sessionStores, given>>

\* createEmbedding rejects for the chunk awaited
RagAddFail(c) ==
    /\ calls[c].op = "ragAdd"
    /\ stores' = [stores EXCEPT ![calls[c].store] =
                    addDocumentBeforeAwait(@, calls[c].id, calls[c].chunk)]
    /\ last' = [ingestRejected(calls[c]) EXCEPT !.rejected = TRUE]
    /\ calls' = [calls EXCEPT ![c] = Idle]
    /\ UNCHANGED <<globalStore, sessionStores, ghost, given>>

\* bulkAddDocuments up to its first await: the entries with falsy content are
\* passed over; when none is left the envelope is returned at once
RagBulkStart(c, s, documents, t, r) ==
    /\ calls[c].op = "idle"
    /\ LET k == NextTruthy(documents, 1)
           id == GenerateId(t, r)
           none == [IngestCall("ragBulk", s, documents, FALSE, 0) EXCEPT !.i = k]
       IN  IF k > Len(documents)
           THEN /\ last' = [ingestResult(none, stores[s]) EXCEPT !.nEmbed = 0]
                /\ UNCHANGED <<stores, calls>>
           ELSE /\ calls' = [calls EXCEPT ![c] =
                        [none EXCEPT !.id = id, !.chunk = documents[k].content,
                                     !.chunkMetadata = MetadataOf(documents[k])]]
                /\ stores' = [stores EXCEPT ![s] =
                        addDocumentBeforeAwait(@, id, documents[k].content)]
                /\ last' = [Last("ragBulk", "start", s) EXCEPT !.nEmbed = 1]
    /\ UNCHANGED <<globalStore, sessionStores, ghost, given>>

\* Whether an entry after the one awaited has truthy content
MoreDocuments(call) == NextTruthy(call.input, call.i + 1) <= Len(call.input)

\* createEmbedding resolves, the store inserts the entry and returns its id, the
\* id is pushed, and the loop goes on to the next entry with truthy content
RagBulkNext(c, embedding, t, r) ==
    /\ calls[c].op = "ragBulk"
    /\ MoreDocuments(calls[c])
    /\ LET call == calls[c]
           s == call.store
           k == NextTruthy(call.input, call.i + 1)
           id == GenerateId(t, r)
       IN  /\ stores' = [stores EXCEPT ![s] =
                    addDocumentBeforeAwait(Inserted(call, embedding, t), id,
                                           call.input[k].content)]
           /\ calls' = [calls EXCEPT ![c] =
                    [Pushed(call) EXCEPT !.i = k, !.id = id,
                                         !.chunk = call.input[k].content,
                                         !.chunkMetadata = MetadataOf(call.input[k])]]
           /\ ghost' = [ghost EXCEPT ![s] = GhostAdded(@, call.id)]
           /\ last' = [Last("ragBulk", "start", s) EXCEPT !.nEmbed = 1]
    /\ UNCHANGED <<globalStore, sessionStores, given>>

\* createEmbedding resolves, the store inserts the last entry with truthy
\* content and returns its id, the loop ends and the envelope is returned
RagBulkReturn(c, embedding, t) ==
    /\ calls[c].op = "ragBulk"
    /\ ~MoreDocuments(calls[c])
    /\ LET call == calls[c]
           s == call.store
           st == Inserted(call, embedding, t)
       IN  /\ stores' = [stores EXCEPT ![s] = st]
           /\ ghost' = [ghost EXCEPT ![s] = GhostAdded(@, call.id)]
           /\ last' = ingestResult(Pushed(call), st)
    /\ calls' = [calls EXCEPT ![c] = Idle]
    /\ UNCHANGED <<globalStore, sessionStores, given>>

\* createEmbedding rejects for the entry awaited
RagBulkFail(c) ==
    /\ calls[c].op = "ragBulk"
    /\ stores' = [stores EXCEPT ![calls[c].store] =
                    addDocumentBeforeAwait(@, calls[c].id, calls[c].chunk)]
    /\ last' = [ingestRejected(calls[c]) EXCEPT !.rejected = TRUE]
    /\ calls' = [calls EXCEPT ![c] = Idle]
    /\ UNCHANGED <<globalStore, sessionStores, ghost, given>>

--------------------------------------------------------------------------
(* providers/factory.ts and the constructors that call it *)

\* The names the factories have registered when the module is loaded
RegisteredProviders == {"vercel-ai", "openai"}

\* A name no factory has registered (the tests' 'non-existent-provider')
UnknownProvider == "non-existent-provider"

\* The strings a provider argument may be; any other argument is a provider
\* object (Providers)
ProviderNames == RegisteredProviders \cup {UnknownProvider}

\* config.defaultProvider.embedding and .llm outside the test environment
DefaultProviderName == "vercel-ai"

\* The provider object a registered factory builds
FactoryProvider == "vercel-ai provider"

\* provider || config.defaultProvider.*
ProviderNameOf(provider) ==
    IF provider = Omitted \/ provider = "" THEN DefaultProviderName ELSE provider

\* EmbeddingProviderFactory.create(provider, modelName): the provider built, or
\* the error 'Unsupported embedding provider'
EmbeddingProviderFactoryCreate(provider, modelName) ==
    IF ProviderNameOf(provider) \notin RegisteredProviders
    THEN IF modelName # Omitted /\ modelName # ""
         THEN [ok |-> TRUE, provider |-> FactoryProvider]
         ELSE [ok |-> FALSE, provider |-> ""]
    ELSE [ok |-> TRUE, provider |-> FactoryProvider]

\* LLMProviderFactory.create(provider, modelName): the provider built, or the
\* error 'Unsupported LLM provider'
LLMProviderFactoryCreate(provider, modelName) ==
    IF ProviderNameOf(provider) \notin RegisteredProviders
    THEN IF modelName # Omitted /\ modelName # ""
         THEN [ok |-> TRUE, provider |-> FactoryProvider]
         ELSE [ok |-> FALSE, provider |-> ""]
    ELSE [ok |-> TRUE, provider |-> FactoryProvider]

\* new InMemoryVectorStore(embeddingProvider): no argument and a name go to the
\* factory, whose error the constructor lets through; a provider object is
\* taken as it is
InMemoryVectorStore(embeddingProvider) ==
    LET created ==
            IF embeddingProvider = Omitted \/ embeddingProvider = ""
            THEN EmbeddingProviderFactoryCreate(Omitted, Omitted)
            ELSE IF embeddingProvider \in ProviderNames
            THEN EmbeddingProviderFactoryCreate(embeddingProvider, Omitted)
            ELSE [ok |-> TRUE, provider |-> embeddingProvider]
    IN  [ok |-> created.ok, store |-> NewStore(created.provider)]

\* new RAGService(llmProvider): as the store's constructor, with the LLM factory
RAGService(llmProvider) ==
    LET created ==
            IF llmProvider = Omitted \/ llmProvider = ""
            THEN LLMProviderFactoryCreate(Omitted, Omitted)
            ELSE IF llmProvider \in ProviderNames
            THEN LLMProviderFactoryCreate(llmProvider, Omitted)
            ELSE [ok |-> TRUE, provider |-> llmProvider]
    IN  [ok |-> created.ok, llmProvider |-> created.provider]

\* The embeddingProvider arguments of getStore: provider objects and names
ProviderArgs == Providers \cup {"openai", UnknownProvider}

--------------------------------------------------------------------------
(* store-manager.ts: the registry *)

\* !sessionId || sessionId === 'global'
IsGlobalArg(sessionId) ==
    sessionId = Omitted \/ sessionId = "" \/ sessionId = "global"

\* A variant of getStore that constructs a store for a session id without
\* looking the id up first
getStore_NoLookup(g, ss, h, sessionId, embeddingProvider) ==
    IF IsGlobalArg(sessionId)
    THEN IF g = Null
         THEN [globalStore |-> Len(h) + 1, sessionStores |-> ss,
               stores |-> Append(h, NewStore(embeddingProvider)),
               ret |-> Len(h) + 1, raised |-> FALSE]
         ELSE [globalStore |-> g, sessionStores |-> ss, stores |-> h,
               ret |-> g, raised |-> FALSE]
    ELSE [globalStore |-> g,
          sessionStores |-> MapSet(ss, sessionId, Len(h) + 1),
          stores |-> Append(h, NewStore(embeddingProvider)),
               ret |-> Len(h) + 1, raised |-> FALSE]

\* A variant of getStore that binds a registered store to the capability of the
\* latest call
getStore_Rebinds(g, ss, h, sessionId, embeddingProvider) ==
    IF IsGlobalArg(sessionId)
    THEN IF g = Null
         THEN [globalStore |-> Len(h) + 1, sessionStores |-> ss,
               stores |-> Append(h, NewStore(embeddingProvider)),
               ret |-> Len(h) + 1, raised |-> FALSE]
         ELSE [globalStore |-> g, sessionStores |-> ss,
               stores |-> [h EXCEPT ![g].embeddingProvider = embeddingProvider],
               ret |-> g, raised |-> FALSE]
    ELSE IF sessionId \notin DOMAIN ss
         THEN [globalStore |-> g,
               sessionStores |-> MapSet(ss, sessionId, Len(h) + 1),
               stores |-> Append(h, NewStore(embeddingProvider)),
               ret |-> Len(h) + 1, raised |-> FALSE]
         ELSE [globalStore |-> g, sessionStores |-> ss,
               stores |-> [h EXCEPT ![ss[sessionId]].embeddingProvider = embeddingProvider],
               ret |-> ss[sessionId], raised |-> FALSE]

\* A variant of getStore in which a second caller does not see the first
\* caller's registration while the store is still unused, and registers a store
\* of its own
getStore_Racing(g, ss, h, sessionId, embeddingProvider) ==
    IF IsGlobalArg(sessionId)
    THEN IF g = Null
         THEN [globalStore |-> Len(h) + 1, sessionStores |-> ss,
               stores |-> Append(h, NewStore(embeddingProvider)),
               ret |-> Len(h) + 1, raised |-> FALSE]
         ELSE [globalStore |-> g, sessionStores |-> ss, stores |-> h,
               ret |-> g, raised |-> FALSE]
    ELSE IF sessionId \notin DOMAIN ss
               \/ (size(h[ss[sessionId]]) = 0 /\ h[ss[sessionId]].index.ids = <<>>)
         THEN [globalStore |-> g,
               sessionStores |-> MapSet(ss, sessionId, Len(h) + 1),
               stores |-> Append(h, NewStore(embeddingProvider)),
               ret |-> Len(h) + 1, raised |-> FALSE]
         ELSE [globalStore |-> g, sessionStores |-> ss, stores |-> h,
               ret |-> ss[sessionId], raised |-> FALSE]

\* A variant of getStore that swallows the error of the constructor and
\* registers a store bound to the name it was given
getStore_SwallowsError(g, ss, h, sessionId, embeddingProvider) ==
    IF IsGlobalArg(sessionId)
    THEN IF g = Null
         THEN [globalStore |-> Len(h) + 1, sessionStores |-> ss,
               stores |-> Append(h, NewStore(embeddingProvider)),
               ret |-> Len(h) + 1, raised |-> FALSE]
         ELSE [globalStore |-> g, sessionStores |-> ss, stores |-> h,
               ret |-> g, raised |-> FALSE]
    ELSE IF sessionId \notin DOMAIN ss
         THEN [globalStore |-> g,
               sessionStores |-> MapSet(ss, sessionId, Len(h) + 1),
               stores |-> Append(h, NewStore(embeddingProvider)),
               ret |-> Len(h) + 1, raised |-> FALSE]
         ELSE [globalStore |-> g, sessionStores |-> ss, stores |-> h,
               ret |-> ss[sessionId], raised |-> FALSE]

\* getStore(sessionId, embeddingProvider) on registry (g, ss) and heap h: the
\* registry and heap after the call, the instance returned, and whether the
\* call raised instead (the constructor's error, which getStore does not catch)
getStore(g, ss, h, sessionId, embeddingProvider) ==
    LET constructed == InMemoryVectorStore(embeddingProvider)
        raise == [globalStore |-> g, sessionStores |-> ss, stores |-> h,
                  ret |-> Null, raised |-> TRUE]
    IN  IF IsGlobalArg(sessionId)
        THEN IF g = Null
             THEN IF ~constructed.ok THEN raise
                  ELSE [globalStore |-> Len(h) + 1, sessionStores |-> ss,
                        stores |-> Append(h, constructed.store),
                        ret |-> Len(h) + 1, raised |-> FALSE]
             ELSE [globalStore |-> g, sessionStores |-> ss, stores |-> h,
                   ret |-> g, raised |-> FALSE]
        ELSE IF sessionId \notin DOMAIN ss
             THEN IF ~constructed.ok THEN raise
                  ELSE [globalStore |-> g,
                        sessionStores |-> MapSet(ss, sessionId, Len(h) + 1),
                        stores |-> Append(h, constructed.store),
                        ret |-> Len(h) + 1, raised |-> FALSE]
             ELSE [globalStore |-> g, sessionStores |-> ss, stores |-> h,
                   ret |-> ss[sessionId], raised |-> FALSE]

\* A variant of getSessionCount without the slot of the global session
getSessionCount_NoGlobalSlot(ss) == Cardinality(DOMAIN ss)

\* getSessionCount()
getSessionCount(ss) == Cardinality(DOMAIN ss) + 1

\* A variant of clearSession that evicts the global store as it does a session's
clearSession_EvictsGlobal(g, ss, h, sessionId) ==
    IF sessionId = "global"
    THEN [globalStore |-> Null, sessionStores |-> ss,
          stores |-> IF g # Null THEN [h EXCEPT ![g] = clear(@)] ELSE h,
          cleared |-> IF g # Null THEN {g} ELSE {}, ret |-> TRUE]
    ELSE IF sessionId \in DOMAIN ss
         THEN [globalStore |-> g, sessionStores |-> MapDelete(ss, sessionId),
               stores |-> [h EXCEPT ![ss[sessionId]] = clear(@)],
               cleared |-> {ss[sessionId]}, ret |-> TRUE]
         ELSE [globalStore |-> g, sessionStores |-> ss, stores |-> h,
               cleared |-> {}, ret |-> FALSE]

\* A variant of clearSession that empties a session's store and leaves it
\* registered
clearSession_KeepsRegistration(g, ss, h, sessionId) ==
    IF sessionId = "global"
    THEN [globalStore |-> g, sessionStores |-> ss,
          stores |-> IF g # Null THEN [h EXCEPT ![g] = clear(@)] ELSE h,
          cleared |-> IF g # Null THEN {g} ELSE {}, ret |-> TRUE]
    ELSE IF sessionId \in DOMAIN ss
         THEN [globalStore |-> g, sessionStores |-> ss,
               stores |-> [h EXCEPT ![ss[sessionId]] = clear(@)],
               cleared |-> {ss[sessionId]}, ret |-> TRUE]
         ELSE [globalStore |-> g, sessionStores |-> ss, stores |-> h,
               cleared |-> {}, ret |-> FALSE]

\* A variant of clearSession that answers false for 'global' while no global
\* store has been constructed
clearSession_GlobalNeedsStore(g, ss, h, sessionId) ==
    IF sessionId = "global"
    THEN [globalStore |-> g, sessionStores |-> ss,
          stores |-> IF g # Null THEN [h EXCEPT ![g] = clear(@)] ELSE h,
          cleared |-> IF g # Null THEN {g} ELSE {}, ret |-> g # Null]
    ELSE IF sessionId \in DOMAIN ss
         THEN [globalStore |-> g, sessionStores |-> MapDelete(ss, sessionId),
               stores |-> [h EXCEPT ![ss[sessionId]] = clear(@)],
               cleared |-> {ss[sessionId]}, ret |-> TRUE]
         ELSE [globalStore |-> g, sessionStores |-> ss, stores |-> h,
               cleared |-> {}, ret |-> FALSE]

\* A variant of clearSession that empties every store of the heap
clearSession_ClearsEveryStore(g, ss, h, sessionId) ==
    IF sessionId = "global"
    THEN [globalStore |-> g, sessionStores |-> ss,
          stores |-> IF g # Null THEN [h EXCEPT ![g] = clear(@)] ELSE h,
          cleared |-> IF g # Null THEN {g} ELSE {}, ret |-> TRUE]
    ELSE IF sessionId \in DOMAIN ss
         THEN [globalStore |-> g, sessionStores |-> MapDelete(ss, sessionId),
               stores |-> [i \in 1..Len(h) |-> clear(h[i])],
               cleared |-> 1..Len(h), ret |-> TRUE]
         ELSE [globalStore |-> g, sessionStores |-> ss, stores |-> h,
               cleared |-> {}, ret |-> FALSE]

\* clearSession(sessionId)
clearSession(g, ss, h, sessionId) ==
    IF sessionId = "global"
    THEN [globalStore |-> g, sessionStores |-> ss,
          stores |-> IF g # Null THEN [h EXCEPT ![g] = clear(@)] ELSE h,
          cleared |-> IF g # Null THEN {g} ELSE {}, ret |-> TRUE]
    ELSE IF sessionId \in DOMAIN ss
         THEN [globalStore |-> g, sessionStores |-> MapDelete(ss, sessionId),
               stores |-> [h EXCEPT ![ss[sessionId]] = clear(@)],
               cleared |-> {ss[sessionId]}, ret |-> TRUE]
         ELSE [globalStore |-> g, sessionStores |-> ss, stores |-> h,
               cleared |-> {}, ret |-> FALSE]

\* A variant of clearAllSessions that empties the global store and keeps it
clearAllSessions_KeepsGlobal(g, ss, h) ==
    LET cleared == {ss[k] : k \in DOMAIN ss} \cup (IF g # Null THEN {g} ELSE {})
    IN  [globalStore |-> g, sessionStores |-> EmptyMap,
         stores |-> [i \in 1..Len(h) |-> IF i \in cleared THEN clear(h[i]) ELSE h[i]],
         cleared |-> cleared]

\* clearAllSessions()
clearAllSessions(g, ss, h) ==
    LET cleared == {ss[k] : k \in DOMAIN ss} \cup (IF g # Null THEN {g} ELSE {})
    IN  [globalStore |-> Null, sessionStores |-> EmptyMap,
         stores |-> [i \in 1..Len(h) |-> IF i \in cleared THEN clear(h[i]) ELSE h[i]],
         cleared |-> cleared]

\* The key of `given` a getStore argument stands for
KeyOf(sessionId) == IF IsGlobalArg(sessionId) THEN "global" ELSE sessionId

GetStore(sessionId, embeddingProvider) ==
    LET r == getStore(globalStore, sessionStores, stores, sessionId, embeddingProvider)
    IN  /\ Len(r.stores) <= MaxInst
        /\ globalStore' = r.globalStore
        /\ sessionStores' = r.sessionStores
        /\ stores' = r.stores
        /\ ghost' = IF Len(r.stores) > Len(stores) THEN Append(ghost, NewGhost) ELSE ghost
        /\ last' = [Last("getStore", IF r.raised THEN "raised" ELSE "returned", r.ret)
                        EXCEPT !.sessionId = sessionId, !.provider = embeddingProvider]
        /\ given' = IF r.raised THEN given
                    ELSE [given EXCEPT ![KeyOf(sessionId)] = r.ret]
        /\ UNCHANGED calls

\* The calls after clearSession was called for the session of the instances
\* `evicted`: the adds in flight on them are stale
StaleCalls(evicted) ==
    [c \in Callers |->
        IF calls[c].op = "add" /\ calls[c].store \in evicted
        THEN [calls[c] EXCEPT !.stale = TRUE]
        ELSE calls[c]]

ClearSession(sessionId) ==
    LET r == clearSession(globalStore, sessionStores, stores, sessionId)
    IN  /\ globalStore' = r.globalStore
        /\ sessionStores' = r.sessionStores
        /\ stores' = r.stores
        /\ ghost' = GhostCleared(ghost, r.cleared)
        /\ last' = [Last("clearSession", "returned", Null) EXCEPT
                        !.sessionId = sessionId, !.ok = r.ret, !.cleared = r.cleared]
        /\ given' = IF sessionId \in SessionNames
                    THEN [given EXCEPT ![sessionId] = Null]
                    ELSE given
        /\ calls' = StaleCalls(IF sessionId \in DOMAIN sessionStores
                               THEN {sessionStores[sessionId]} ELSE {})

ClearAllSessions ==
    LET r == clearAllSessions(globalStore, sessionStores, stores)
    IN  /\ globalStore' = r.globalStore
        /\ sessionStores' = r.sessionStores
        /\ stores' = r.stores
        /\ ghost' = GhostCleared(ghost, r.cleared)
        /\ last' = [Last("clearAllSessions", "returned", Null) EXCEPT
                        !.cleared = r.cleared]
        /\ given' = [k \in DOMAIN given |-> Null]
        /\ UNCHANGED calls

--------------------------------------------------------------------------
(* integrations/vercel-ai.ts: the helpers that work on a session's store *)

HelperNames == {"onInput", "createRAGContext", "searchRAG"}

\* A variant of helperGetStore that gives a registered session id a new store
helperGetStore_Replaces(g, ss, h, sessionId) ==
    IF IsGlobalArg(sessionId) \/ sessionId \notin DOMAIN ss
    THEN getStore(g, ss, h, sessionId, Omitted)
    ELSE [globalStore |-> g, sessionStores |-> MapSet(ss, sessionId, Len(h) + 1),
          stores |-> Append(h, NewStore(FactoryProvider)),
          ret |-> Len(h) + 1, raised |-> FALSE]

\* `const store = getStore(sessionId)` (lines 21, 44, 178, 190): the
\* embeddingProvider argument is left out
helperGetStore(g, ss, h, sessionId) == getStore(g, ss, h, sessionId, Omitted)

\* `[Source ${i + 1}]: ${r.content}` for the results from the i-th on, joined
\* with '\n\n' (line 52)
RECURSIVE SourcesFrom(_, _)
SourcesFrom(results, i) ==
    IF i > Len(results) THEN ""
    ELSE "[Source " \o ToString(i) \o "]: " \o results[i].content
            \o (IF i < Len(results) THEN "\n\n" ELSE "")
            \o SourcesFrom(results, i + 1)

\* What a helper returns for the results of store.search, as `last` records it:
\* onInput (lines 24-31) the results without their ids and the store's size(),
\* createRAGContext (lines 47-53) '' or the context, searchRAG (line 191) the
\* results
helperResult(helper, s, sessionId, topK, results, st) ==
    LET l == [Last(helper, "returned", s) EXCEPT !.sessionId = sessionId, !.topK = topK]
    IN  IF helper = "onInput"
        THEN [l EXCEPT !.results = [i \in 1..Len(results) |->
                            [content |-> results[i].content,
                             score |-> results[i].score,
                             metadata |-> results[i].metadata]],
                       !.totalDocuments = size(st)]
        ELSE IF helper = "createRAGContext"
        THEN [l EXCEPT !.answer =
                IF Len(results) = 0 THEN ""
                ELSE "Based on the following relevant information from the "
                        \o "knowledge base:\n\n" \o SourcesFrom(results, 1)
                        \o "\n\nPlease answer the following question:"]
        ELSE [l EXCEPT !.results = results]

\* A helper up to `await store.search(query, topK)`: getStore, then store.search,
\* which answers [] at once for an empty store and otherwise calls
\* createEmbedding
HelperStart(c, helper, sessionId, query, topK) ==
    /\ calls[c].op = "idle"
    /\ LET r == helperGetStore(globalStore, sessionStores, stores, sessionId)
       IN  /\ ~r.raised
           /\ Len(r.stores) <= MaxInst
           /\ globalStore' = r.globalStore
           /\ sessionStores' = r.sessionStores
           /\ stores' = r.stores
           /\ ghost' = IF Len(r.stores) > Len(stores) THEN Append(ghost, NewGhost)
                       ELSE ghost
           /\ given' = [given EXCEPT ![KeyOf(sessionId)] = r.ret]
           /\ IF searchBeforeAwait(r.stores[r.ret]).phase = "returned"
              THEN /\ last' = helperResult(helper, r.ret, sessionId, topK, <<>>,
                                           r.stores[r.ret])
                   /\ calls' = calls
              ELSE /\ last' = [Last(helper, "start", r.ret) EXCEPT
                                    !.sessionId = sessionId, !.topK = topK,
                                    !.nEmbed = 1]
                   /\ calls' = [calls EXCEPT ![c] =
                            [op |-> "helper", store |-> r.ret, id |-> NoId,
                             content |-> query, metadata |-> EmptyMeta,
                             topK |-> topK, helper |-> helper,
                             sessionId |-> sessionId]]

\* createEmbedding(query) resolves, store.search ranks and the helper returns;
\* a ranked id without document makes store.search, and with it the helper,
\* raise
HelperComplete(c, queryEmbedding) ==
    /\ calls[c].op = "helper"
    /\ LET call == calls[c]
           st == stores[call.store]
       IN  \E sorted \in SortOutcomes(ScoresOf(st, queryEmbedding)) :
              LET r == TopResults(st, sorted, call.topK)
              IN  last' = IF r.ok
                          THEN [helperResult(call.helper, call.store, call.sessionId,
                                             call.topK, r.results, st)
                                    EXCEPT !.nEmbed = 1]
                          ELSE [Last(call.helper, "raised", call.store) EXCEPT
                                    !.sessionId = call.sessionId,
                                    !.topK = call.topK, !.nEmbed = 1]
    /\ stores' = [stores EXCEPT ![calls[c].store] = searchAfterAwait(@)]
    /\ calls' = [calls EXCEPT ![c] = Idle]
    /\ UNCHANGED <<globalStore, sessionStores, ghost, given>>

\* createEmbedding(query) rejects: no helper catches
HelperFail(c) ==
    /\ calls[c].op = "helper"
    /\ last' = [Last(calls[c].helper, "raised", calls[c].store) EXCEPT
                    !.sessionId = calls[c].sessionId, !.topK = calls[c].topK,
                    !.nEmbed = capabilityRejected(1)]
    /\ calls' = [calls EXCEPT ![c] = Idle]
    /\ UNCHANGED <<stores, globalStore, sessionStores, ghost, given>>

\* clearRAGSession(sessionId), lines 177-180: getStore, then store.clear()
ClearRAGSession(sessionId) ==
    LET r == helperGetStore(globalStore, sessionStores, stores, sessionId)
    IN  /\ ~r.raised
        /\ Len(r.stores) <= MaxInst
        /\ globalStore' = r.globalStore
        /\ sessionStores' = r.sessionStores
        /\ stores' = [r.stores EXCEPT ![r.ret] = clear(@)]
        /\ ghost' = GhostCleared(IF Len(r.stores) > Len(stores)
                                 THEN Append(ghost, NewGhost) ELSE ghost, {r.ret})
        /\ given' = [given EXCEPT ![KeyOf(sessionId)] = r.ret]
        /\ last' = [Last("clearRAGSession", "returned", r.ret) EXCEPT
                        !.sessionId = sessionId]
        /\ UNCHANGED calls

--------------------------------------------------------------------------
(* One store, constructed directly, under concurrent callers *)

\* Whether instance s has room for one more addDocument
Room(s) == Len(stores[s].index.ids) + Cardinality(PendingAdds(s)) < MaxDocs

InitStore ==
    /\ stores = <<NewStore("p1")>>
    /\ globalStore = Null
    /\ sessionStores = EmptyMap
    /\ calls = [c \in Callers |-> Idle]
    /\ last = NoLast
    /\ ghost = <<NewGhost>>
    /\ given = [k \in {"global"} \cup SessionNames |-> Null]

NextStore ==
    \/ \E c \in Callers, s \in Instances, content \in Contents,
          metadata \in Metadatas, t \in Times, r \in Rands :
          Room(s) /\ AddStart(c, s, content, metadata, t, r)
    \/ \E c \in Callers, embedding \in Vectors, t \in Times : AddComplete(c, embedding, t)
    \/ \E c \in Callers : AddFail(c)
    \/ \E s \in Instances :
          \E id \in (DOMAIN stores[s].documents) \cup Range(stores[s].index.ids)
                        \cup {UnknownId} :
              RemoveDocument(s, id)
    \/ \E s \in Instances : Clear(s)
    \/ \E c \in Callers, s \in Instances, query \in Queries, topK \in TopKs :
          SearchStart(c, s, query, topK)
    \/ \E c \in Callers, queryEmbedding \in Vectors : SearchComplete(c, queryEmbedding)
    \/ \E c \in Callers : SearchFail(c)

SpecStore == InitStore /\ [][NextStore]_vars

--------------------------------------------------------------------------
(* One store and one caller: documents are added one after another, each with *)
(* an id of its own, some are removed, and the store is searched              *)

\* the index holds no more than this many entries
MaxRankDocs == 4

RankRands == {"r1", "r2", "r3", "r4"}

NextRank ==
    \/ \E s \in Instances, content \in Contents, metadata \in Metadatas,
          t \in Times, r \in RankRands :
          /\ Len(stores[s].index.ids) < MaxRankDocs
          /\ GenerateId(t, r) \notin ghost[s].returned
          /\ AddStart("c1", s, content, metadata, t, r)
    \/ \E embedding \in Vectors, t \in Times : AddComplete("c1", embedding, t)
    \/ \E s \in Instances : \E id \in DOMAIN stores[s].documents : RemoveDocument(s, id)
    \/ \E s \in Instances, query \in Queries : SearchStart("c1", s, query, DefaultTopK)
    \/ SearchComplete("c1", <<1, 0>>)

SpecRank == InitStore /\ [][NextRank]_vars

--------------------------------------------------------------------------
(* The registry: stores are obtained with getStore, filled, and cleared *)

\* under SpecRegistry the index of a store holds no more than this many entries
MaxRegDocs == 1

InitRegistry ==
    /\ stores = <<>>
    /\ globalStore = Null
    /\ sessionStores = EmptyMap
    /\ calls = [c \in Callers |-> Idle]
    /\ last = NoLast
    /\ ghost = <<>>
    /\ given = [k \in {"global"} \cup SessionNames |-> Null]

NextRegistry ==
    \/ \E sessionId \in SessionArgs : GetStore(sessionId, "p1")
    \/ \E sessionId \in SessionArgs \ {Omitted} : ClearSession(sessionId)
    \/ ClearAllSessions
    \/ \E s \in Instances, content \in Contents, metadata \in Metadatas, t \in Times :
          /\ Len(stores[s].index.ids) < MaxRegDocs
          /\ AddStart("c1", s, content, metadata, t, "r1")
    \/ \E t \in Times : AddComplete("c1", <<1, 0>>, t)

SpecRegistry == InitRegistry /\ [][NextRegistry]_vars

--------------------------------------------------------------------------
(* The registry under callers that name different embedding capabilities *)

NextCapability ==
    \/ \E sessionId \in SessionArgs, p \in ProviderArgs : GetStore(sessionId, p)
    \/ \E sessionId \in {"global"} \cup SessionNames : ClearSession(sessionId)
    \/ ClearAllSessions

SpecCapability == InitRegistry /\ [][NextCapability]_vars

--------------------------------------------------------------------------
(* Sessions side by side: stores are obtained with getStore and then written *)
(* to, emptied and evicted                                                   *)

NextSessions ==
    \/ \E sessionId \in {Omitted} \cup SessionNames : GetStore(sessionId, "p1")
    \/ \E sessionId \in SessionNames : ClearSession(sessionId)
    \/ \E s \in Instances, content \in Contents, metadata \in Metadatas, t \in Times :
          /\ Len(stores[s].index.ids) < MaxRegDocs
          /\ AddStart("c1", s, content, metadata, t, "r1")
    \/ \E t \in Times : AddComplete("c1", <<1, 0>>, t)
    \/ \E s \in Instances : \E id \in DOMAIN stores[s].documents : RemoveDocument(s, id)
    \/ \E s \in Instances : Clear(s)

SpecSessions == InitRegistry /\ [][NextSessions]_vars

--------------------------------------------------------------------------
(* RAGService.search on one store: caller c1 writes to the store, caller c2 *)
(* searches it through the service                                          *)

\* under SpecRag the index of the store holds no more than this many entries
MaxRagDocs == 2

RagVectors == {<<1, 0>>, <<0, 1>>}

RagTopKs == {0, 1, DefaultTopK}

NextRag ==
    \/ \E s \in Instances, content \in Contents, metadata \in Metadatas,
          t \in Times, r \in Rands :
          /\ Len(stores[s].index.ids) < MaxRagDocs
          /\ AddStart("c1", s, content, metadata, t, r)
    \/ \E embedding \in RagVectors, t \in Times : AddComplete("c1", embedding, t)
    \/ AddFail("c1")
    \/ \E s \in Instances : \E id \in DOMAIN stores[s].documents : RemoveDocument(s, id)
    \/ \E s \in Instances : Clear(s)
    \/ \E s \in Instances, query \in Queries, topK \in RagTopKs,
          generateAnswer \in BOOLEAN :
          RagSearchStart("c2", s, query, topK, generateAnswer)
    \/ \E queryEmbedding \in RagVectors : RagSearchRanked("c2", queryEmbedding)
    \/ RagSearchReturn("c2")
    \/ RagEmbedFail("c2")
    \/ \E answer \in Answers : RagGenerateDone("c2", answer)
    \/ RagGenerateFail("c2")
    \/ \E s \in Instances, query \in Queries, topK \in RagTopKs :
          SearchStart("c2", s, query, topK)
    \/ \E queryEmbedding \in RagVectors : SearchComplete("c2", queryEmbedding)
    \/ SearchFail("c2")

SpecRag == InitStore /\ [][NextRag]_vars

--------------------------------------------------------------------------
(* One store and one caller: documents of different sizes are added at      *)
(* different times, removed and cleared, and the store's stats are read     *)

\* under SpecStats the index of the store holds no more than this many entries
MaxStatsDocs == 2

\* Date.now() and new Date() are the wall clock, which may step back: a
\* document created at 1000 gets its lastUpdated at 1000 or at 2000
NextStats ==
    \/ \E s \in Instances, content \in {"a", "bcd"}, metadata \in Metadatas,
          r \in Rands :
          /\ Len(stores[s].index.ids) < MaxStatsDocs
          /\ AddStart("c1", s, content, metadata, 1000, r)
    \/ \E t \in {1000, 2000} : AddComplete("c1", <<1, 0>>, t)
    \/ \E s \in Instances : \E id \in DOMAIN stores[s].documents : RemoveDocument(s, id)
    \/ \E s \in Instances : Clear(s)
    \/ \E s \in Instances : GetStats(s)

SpecStats == InitStore /\ [][NextStats]_vars

--------------------------------------------------------------------------
(* The helpers of the integration side by side with addDocument on the      *)
(* stores they have registered                                              *)

NextHelpers ==
    \/ \E helper \in HelperNames, sessionId \in SessionNames, query \in Queries,
          topK \in {1, DefaultTopK} : HelperStart("c2", helper, sessionId, query, topK)
    \/ HelperComplete("c2", <<1, 0>>)
    \/ HelperFail("c2")
    \/ \E sessionId \in SessionNames : ClearRAGSession(sessionId)
    \/ \E s \in Instances, content \in Contents, metadata \in Metadatas, t \in Times :
          /\ Len(stores[s].index.ids) < MaxRegDocs
          /\ AddStart("c1", s, content, metadata, t, "r1")
    \/ \E t \in Times : AddComplete("c1", <<1, 0>>, t)

SpecHelpers == InitRegistry /\ [][NextHelpers]_vars

--------------------------------------------------------------------------
(* One store and one caller that ingests through RAGService.addDocument and *)
(* RAGService.bulkAddDocuments; createEmbedding may reject at every call    *)

\* under SpecIngest a content has no more than this many characters
MaxContentLen == 3

\* under SpecIngest bulkAddDocuments is given no more than this many entries
MaxBulkLen == 2

\* under SpecIngest the index of the store holds no more than this many entries
MaxIngestDocs == 4

IngestChars == {"a", " "}

IngestContents == UNION {[1..n -> IngestChars] : n \in 0..MaxContentLen}

IngestMetadatas == {[source |-> "test"]}

\* chunkSize is any number the caller passes
ChunkSizes == {-1, 0, 1, 2}

BulkContents == {<<>>, <<" ">>, <<"a">>}

BulkDocuments ==
    {[content |-> content] : content \in BulkContents}
        \cup {[content |-> content, metadata |-> metadata] :
                content \in BulkContents, metadata \in IngestMetadatas}

BulkLists == UNION {[1..n -> BulkDocuments] : n \in 0..MaxBulkLen}

\* Whether the store of the ingestion call of caller c has room, once the
\* document awaited is inserted, for the next one
IngestRoom(c) ==
    /\ calls[c].op \in {"ragAdd", "ragBulk"}
    /\ Len(stores[calls[c].store].index.ids) + 1 < MaxIngestDocs

\* The document an earlier addDocument('a', {source: 'test'}) has left
EarlierDocument ==
    [id |-> GenerateId(1000, "r1"), content |-> <<"a">>, embedding |-> <<1, 0>>,
     metadata |-> [source |-> "test"], timestamp |-> 1000]

\* The store is new, or holds the document of one earlier addDocument
InitIngest ==
    /\ \/ /\ stores = <<NewStore("p1")>>
          /\ ghost = <<NewGhost>>
       \/ /\ stores = <<InsertDocument(NewStore("p1"), EarlierDocument)>>
          /\ ghost = <<GhostAdded(NewGhost, EarlierDocument.id)>>
    /\ globalStore = Null
    /\ sessionStores = EmptyMap
    /\ calls = [c \in Callers |-> Idle]
    /\ last = NoLast
    /\ given = [k \in {"global"} \cup SessionNames |-> Null]

\* The caller makes one ingestion call, its first call (last.op = "none")
NextIngest ==
    \/ \E s \in Instances, content \in IngestContents,
          metadata \in IngestMetadatas, useChunks \in BOOLEAN,
          chunkSize \in ChunkSizes, r \in Rands :
          /\ last.op = "none"
          /\ RagAddStart("c1", s, content, metadata, useChunks, chunkSize, 1000, r)
    \/ \E r \in Rands : IngestRoom("c1") /\ RagAddNextChunk("c1", <<1, 0>>, 1000, r)
    \/ RagAddReturn("c1", <<1, 0>>, 1000)
    \/ RagAddFail("c1")
    \/ \E s \in Instances, documents \in BulkLists, r \in Rands :
          /\ last.op = "none"
          /\ RagBulkStart("c1", s, documents, 1000, r)
    \/ \E r \in Rands : IngestRoom("c1") /\ RagBulkNext("c1", <<1, 0>>, 1000, r)
    \/ RagBulkReturn("c1", <<1, 0>>, 1000)
    \/ RagBulkFail("c1")

SpecIngest == InitIngest /\ [][NextIngest]_vars

--------------------------------------------------------------------------
(* Claims about one store, checked under SpecStore *)

Min(a, b) == IF a < b THEN a ELSE b

\* The positions of id in the index
PositionsOf(st, id) == {i \in 1..Len(st.index.ids) : st.index.ids[i] = id}

\* C1: in every reachable state of a store the index and the document map are in
\* lockstep: both index arrays are as long as the map is large, and every id of
\* the map occurs exactly once in index.ids, at the position that holds the
\* document's embedding.
C1_Lockstep ==
    \A s \in Instances :
        LET st == stores[s]
        IN  /\ Len(st.index.ids) = Len(st.index.embeddings)
            /\ Len(st.index.ids) = size(st)
            /\ \A id \in DOMAIN st.documents :
                  /\ Cardinality(PositionsOf(st, id)) = 1
                  /\ \A i \in PositionsOf(st, id) :
                        st.index.embeddings[i] = st.documents[id].embedding

\* C2: the id an addDocument call returns differs from every id the store holds
\* at that moment, from every id an earlier addDocument on that store returned,
\* and from the id of every addDocument in flight on it.
C2_UniqueIds ==
    [][\A c \in Callers, embedding \in Vectors, t \in Times :
          AddComplete(c, embedding, t) =>
              LET s == calls[c].store
                  id == calls[c].id
              IN  /\ ~hasDocument(stores[s], id)
                  /\ id \notin ghost[s].returned
                  /\ \A c2 \in PendingAdds(s) \ {c} : calls[c2].id # id]_vars

\* C3: an addDocument call whose createEmbedding rejects leaves the store as it
\* was: neither the part of the call before its await nor its failure changes
\* the document map, the index or size().
C3_FailedAddLeavesStore ==
    [][((\E c \in Callers : AddFail(c))
          \/ (\E c \in Callers, s \in Instances, content \in Contents,
                 metadata \in Metadatas, t \in Times, r \in Rands :
                 AddStart(c, s, content, metadata, t, r)))
        => stores' = stores]_vars

\* C3 witness: an addDocument has just failed on a store that holds a document
C3_Witness ==
    /\ last.op = "addDocument" /\ last.phase = "raised"
    /\ size(stores[last.inst]) >= 1

\* C4: on a store that was never cleared, size() is the number of completed adds
\* minus the number of removes that returned true, and hasDocument(id) holds
\* exactly for the ids a completed add returned and no remove has taken since.
C4_SizeCounts ==
    \A s \in Instances :
        ~ghost[s].cleared =>
            /\ size(stores[s]) = ghost[s].net
            /\ \A id \in AllIds : hasDocument(stores[s], id) <=> id \in ghost[s].live

\* C5: removeDocument of an id the store holds returns true, leaves the id in
\* neither the document map nor the index, and lowers size() by one;
\* removeDocument of any other id returns false and changes nothing.
C5_Remove ==
    [][\A s \in Instances, id \in AllIds :
          RemoveDocument(s, id) =>
              IF hasDocument(stores[s], id)
              THEN /\ last'.ok = TRUE
                   /\ ~hasDocument(stores'[s], id)
                   /\ id \notin Range(stores'[s].index.ids)
                   /\ Len(stores'[s].index.ids) = Len(stores'[s].index.embeddings)
                   /\ size(stores'[s]) = size(stores[s]) - 1
              ELSE /\ last'.ok = FALSE
                   /\ stores' = stores]_vars

\* Scores in non-increasing order; a NaN score is in no order with anything
NonIncreasing(results) ==
    \A i, j \in 1..Len(results) :
        i < j => ScoreDiff(results[i].score, results[j].score) \in {"pos", "zero"}

\* C6: a search that returns, returns min(topK, size()) results, their scores in
\* non-increasing order.  Stated for topK >= 0, where min(topK, size()) is a
\* count; for a negative topK slice(0, topK) drops results from the end.
C6_SearchCount ==
    (last.op = "search" /\ last.phase = "returned" /\ last.topK >= 0) =>
        /\ Len(last.results) = Min(last.topK, size(stores[last.inst]))
        /\ NonIncreasing(last.results)

\* C7: search on a store that holds no document returns [] at once, whatever the
\* query and topK, and does not call createEmbedding.
C7_EmptySearch ==
    [][\A c \in Callers, s \in Instances, query \in Queries, topK \in TopKs :
          (SearchStart(c, s, query, topK) /\ size(stores[s]) = 0) =>
              /\ last'.phase = "returned"
              /\ last'.results = <<>>
              /\ last'.nEmbed = 0
              /\ calls'[c] = Idle]_vars

\* C7 witness: a search has just returned from a store that was used and emptied
C7_Witness ==
    /\ last.op = "search" /\ last.phase = "returned" /\ last.nEmbed = 0
    /\ size(stores[last.inst]) = 0
    /\ ghost[last.inst].returned # {}

\* C8: results of equal score come in insertion order: of two returned
\* documents with equal scores, the one that stands earlier in the index is
\* returned first.
C8_StableTies ==
    (last.op = "search" /\ last.phase = "returned") =>
        \A i, j \in 1..Len(last.results) :
            (i < j /\ ScoreDiff(last.results[i].score, last.results[j].score) = "zero"
                   /\ last.results[i].id # last.results[j].id) =>
                IndexOf(stores[last.inst].index.ids, last.results[i].id)
                    < IndexOf(stores[last.inst].index.ids, last.results[j].id)

--------------------------------------------------------------------------
(* Claims about the registry, checked under SpecRegistry *)

\* C9: getStore with a non-global session id returns the instance it gave out
\* for that id before, unless the session was cleared since; and the instance
\* it returns is not the one given out for any other non-global id.
C9_SessionIdentity ==
    [][\A sessionId \in SessionNames, p \in Providers :
          GetStore(sessionId, p) =>
              /\ given[sessionId] # Null => last'.inst = given[sessionId]
              /\ \A other \in SessionNames \ {sessionId} :
                    given[other] # Null => last'.inst # given[other]]_vars

\* C9 witness: getStore('s1') has just returned a store that already holds a
\* document, while 's2' has a store of its own
C9_Witness ==
    /\ last.op = "getStore" /\ last.sessionId = "s1"
    /\ size(stores[last.inst]) >= 1
    /\ given["s2"] # Null /\ given["s2"] # last.inst

\* C10: getStore without a session id, and getStore('global'), return the
\* instance given out for the global session before, also after
\* clearSession('global'), unless clearAllSessions was called since.
C10_GlobalIdentity ==
    [][\A sessionId \in {Omitted, "global"}, p \in Providers :
          GetStore(sessionId, p) =>
              (given["global"] # Null => last'.inst = given["global"])]_vars

\* C10 witness: getStore() has just returned the global store, which
\* clearSession('global') had emptied before
C10_Witness ==
    /\ last.op = "getStore" /\ last.sessionId = Omitted
    /\ last.inst = globalStore
    /\ ghost[last.inst].cleared

\* The instances the registry holds: the global store and the session stores
Registered(g, ss) == {ss[k] : k \in DOMAIN ss} \cup (IF g # Null THEN {g} ELSE {})

\* Whether store st holds nothing: no document, no index entry
IsEmptyStore(st) ==
    size(st) = 0 /\ st.index.ids = <<>> /\ st.index.embeddings = <<>>

\* C11: clearSession(id) for a registered non-global id returns true, empties
\* that store and evicts it, so that the next getStore(id) returns an instance
\* that did not exist before, with size() = 0; clearSession(id) for a non-global
\* id that is not registered returns false and changes neither the registry nor
\* any store.
C11_ClearSession ==
    [][\A sessionId \in SessionNames \cup {""} :
          ClearSession(sessionId) =>
              IF sessionId \in DOMAIN sessionStores
              THEN LET old == sessionStores[sessionId]
                   IN  /\ last'.ok = TRUE
                       /\ IsEmptyStore(stores'[old])
                       /\ sessionId \notin DOMAIN sessionStores'
                       /\ \A p \in Providers :
                             LET next == getStore(globalStore', sessionStores',
                                                  stores', sessionId, p)
                             IN  /\ next.ret # old
                                 /\ next.ret \notin Instances
                                 /\ size(next.stores[next.ret]) = 0
              ELSE /\ last'.ok = FALSE
                   /\ stores' = stores
                   /\ sessionStores' = sessionStores
                   /\ globalStore' = globalStore]_vars

\* C11 witness: clearSession('s1') has just emptied and evicted a store that
\* held a document
C11_Witness ==
    /\ last.op = "clearSession" /\ last.sessionId = "s1" /\ last.ok
    /\ "s1" \notin DOMAIN sessionStores
    /\ \E i \in last.cleared :
          /\ ghost[i].returned # {}
          /\ i \notin Registered(globalStore, sessionStores)

\* C12: clearSession('global') returns true whether or not the global store has
\* been constructed; a constructed global store is emptied in place and is the
\* instance the next getStore() returns; the registered sessions and every
\* other store are as before.
C12_ClearGlobal ==
    [][ClearSession("global") =>
          /\ last'.ok = TRUE
          /\ globalStore' = globalStore
          /\ sessionStores' = sessionStores
          /\ Len(stores') = Len(stores)
          /\ \A i \in Instances \ {globalStore} : stores'[i] = stores[i]
          /\ globalStore # Null =>
                /\ IsEmptyStore(stores'[globalStore])
                /\ \A sessionId \in {Omitted, "", "global"}, p \in Providers :
                      getStore(globalStore', sessionStores', stores',
                               sessionId, p).ret = globalStore]_vars

\* C12 witness: clearSession('global') has just emptied a global store that held
\* a document, while a session is registered whose store holds one too
C12_Witness ==
    /\ last.op = "clearSession" /\ last.sessionId = "global" /\ last.ok
    /\ globalStore # Null /\ last.cleared = {globalStore}
    /\ ghost[globalStore].returned # {}
    /\ \E k \in DOMAIN sessionStores : size(stores[sessionStores[k]]) >= 1

\* C13: after clearAllSessions() getSessionCount() is 1, every store that was
\* registered, the global one included, has size() = 0, and the next getStore
\* for any id, the global id included, constructs an instance that did not
\* exist before the call.
C13_ClearAll ==
    [][ClearAllSessions =>
          /\ getSessionCount(sessionStores') = 1
          /\ \A i \in Registered(globalStore, sessionStores) : IsEmptyStore(stores'[i])
          /\ \A sessionId \in SessionArgs, p \in Providers :
                LET next == getStore(globalStore', sessionStores', stores', sessionId, p)
                IN  /\ next.ret \notin Instances
                    /\ size(next.stores[next.ret]) = 0]_vars

\* C13 witness: clearAllSessions() has just emptied the global store and a
\* session's store, each of which held a document
C13_Witness ==
    /\ last.op = "clearAllSessions"
    /\ Cardinality(last.cleared) >= 2
    /\ \A i \in last.cleared : ghost[i].returned # {}
    /\ globalStore = Null /\ sessionStores = EmptyMap

\* C14: getSessionCount() is the number of non-global sessions for which
\* getStore was called and that were not cleared since, plus one, whether or
\* not the global store exists; it is never less than 1.
C14_SessionCount ==
    /\ getSessionCount(sessionStores)
          = Cardinality({k \in SessionNames : given[k] # Null}) + 1
    /\ getSessionCount(sessionStores) >= 1

\* C14 witness: a session is registered while the global store, constructed
\* earlier, has been evicted
C14_Witness ==
    /\ globalStore = Null
    /\ DOMAIN sessionStores # {}
    /\ \E i \in Instances : ghost[i].cleared /\ i \notin Registered(globalStore, sessionStores)

\* Whether getStore(sessionId) finds a store registered
IsRegistered(sessionId) ==
    IF IsGlobalArg(sessionId) THEN globalStore # Null
    ELSE sessionId \in DOMAIN sessionStores

\* C15: a getStore call for a session that has a store returns that store,
\* still bound to the capability it was constructed with, whatever capability
\* the call names, and constructs nothing.
C15_FirstCapabilityWins ==
    [][\A sessionId \in SessionArgs, p \in ProviderArgs :
          (GetStore(sessionId, p) /\ IsRegistered(sessionId)) =>
              LET existing == IF IsGlobalArg(sessionId) THEN globalStore
                              ELSE sessionStores[sessionId]
              IN  /\ last'.inst = existing
                  /\ Len(stores') = Len(stores)
                  /\ stores'[existing].embeddingProvider
                        = stores[existing].embeddingProvider
                  /\ stores' = stores]_vars

\* C15 witness: getStore('s1', p2) has just returned the store of 's1', which
\* is bound to p1, while the store of 's2' is bound to p2
C15_Witness ==
    /\ last.op = "getStore" /\ last.sessionId = "s1" /\ last.provider = "p2"
    /\ stores[last.inst].embeddingProvider = "p1"
    /\ "s2" \in DOMAIN sessionStores
    /\ stores[sessionStores["s2"]].embeddingProvider = "p2"

\* C18: getStore runs to completion without suspending, so two callers that
\* ask for the same unregistered session id at once run one after the other:
\* a getStore(id) call that directly follows a getStore(id) call that returned
\* a store returns that instance, whatever capability it names, constructs
\* nothing and leaves the one registration of the id as it is.
C18_ConcurrentGetStore ==
    [][\A sessionId \in SessionNames, p \in ProviderArgs :
          (GetStore(sessionId, p) /\ last.op = "getStore"
                                  /\ last.phase = "returned"
                                  /\ last.sessionId = sessionId) =>
              /\ last'.inst = last.inst
              /\ Len(stores') = Len(stores)
              /\ sessionStores' = sessionStores
              /\ sessionStores'[sessionId] = last.inst]_vars

\* C18 witness: 's2' was asked for by a caller naming p1 and by a caller naming
\* p2; the second has just been given the store of the first, and one instance
\* exists in all
C18_Witness ==
    /\ last.op = "getStore" /\ last.sessionId = "s2" /\ last.provider = "p2"
    /\ Len(stores) = 1
    /\ stores[last.inst].embeddingProvider = "p1"
    /\ sessionStores = MapSet(EmptyMap, "s2", last.inst)

\* C30: a provider name that is not registered, given without a model name,
\* makes the factories' create and the constructors of the store and of the
\* service raise; a getStore call that has to construct a store with such a
\* name raises and leaves the registry and the heap as they were.
C30_UnknownProviderRaises ==
    [][/\ \A name \in ProviderNames \ RegisteredProviders :
             /\ ~EmbeddingProviderFactoryCreate(name, Omitted).ok
             /\ ~LLMProviderFactoryCreate(name, Omitted).ok
             /\ ~InMemoryVectorStore(name).ok
             /\ ~RAGService(name).ok
       /\ \A sessionId \in SessionArgs, name \in ProviderNames \ RegisteredProviders :
             (GetStore(sessionId, name) /\ ~IsRegistered(sessionId))
             => /\ last'.phase = "raised"
                /\ sessionStores' = sessionStores
                /\ globalStore' = globalStore
                /\ stores' = stores
                /\ getSessionCount(sessionStores') = getSessionCount(sessionStores)]_vars

\* C30 witness: getStore('s1', 'non-existent-provider') has just raised; 's1'
\* is not registered, 's2' still is
C30_Witness ==
    /\ last.op = "getStore" /\ last.phase = "raised"
    /\ last.sessionId = "s1" /\ last.provider = UnknownProvider
    /\ DOMAIN sessionStores = {"s2"}

--------------------------------------------------------------------------
(* Claims about sessions side by side, checked under SpecSessions *)

\* The instance clearSession(sessionId) works on, if any
TargetOf(sessionId) ==
    IF sessionId = "global"
    THEN (IF globalStore # Null THEN {globalStore} ELSE {})
    ELSE (IF sessionId \in DOMAIN sessionStores THEN {sessionStores[sessionId]} ELSE {})

\* C19: addDocument, removeDocument and clear on the store of one session, and
\* clearSession of one session, leave every other instance, the global store
\* included, as it was: its document map and index, hence its size() and what
\* a search of it ranks.
C19_Independent ==
    [][/\ last'.op \in {"addDocument", "removeDocument", "clear"}
            => /\ \A i \in Instances \ {last'.inst} : stores'[i] = stores[i]
               /\ Len(stores') = Len(stores)
               /\ globalStore' = globalStore /\ sessionStores' = sessionStores
       /\ last'.op = "clearSession"
            => /\ \A i \in Instances \ TargetOf(last'.sessionId) :
                     stores'[i] = stores[i]
               /\ Len(stores') = Len(stores)]_vars

\* C19 witness: clearSession('s1') has just emptied the store of 's1', which
\* held a document, and the global store still holds its document
C19_Witness ==
    /\ last.op = "clearSession" /\ last.sessionId = "s1" /\ last.ok
    /\ \E i \in last.cleared : ghost[i].returned # {}
    /\ globalStore # Null /\ globalStore \notin last.cleared
    /\ size(stores[globalStore]) >= 1

--------------------------------------------------------------------------
(* Claims about concurrent calls on one store, checked under SpecStore *)

\* C16: mutating calls on a store are serialized: while an addDocument on a
\* store is in flight, no removeDocument and no clear changes that store.
C16_Serialized ==
    [][(last'.op \in {"removeDocument", "clear"} /\ stores' # stores)
          => PendingAdds(last'.inst) = {}]_vars

\* C17: a search that resolves ranks over a store in which every index entry
\* has its document, and returns results.
C17_ConsistentSnapshot ==
    [][\A c \in Callers, queryEmbedding \in Vectors :
          SearchComplete(c, queryEmbedding) =>
              LET st == stores[calls[c].store]
              IN  /\ Range(st.index.ids) \subseteq DOMAIN st.documents
                  /\ last'.phase = "returned"]_vars

--------------------------------------------------------------------------
(* Claims about RAGService.search, checked under SpecRag *)

\* The envelope {success: false, message}: no results, no answer
IsFailureEnvelope(l) ==
    /\ l.phase = "returned"
    /\ l.ok = FALSE
    /\ l.message # ""
    /\ l.keys = {"success", "message"}

\* C20: RAGService.search never raises; when createEmbedding fails, when
\* generateText fails and when store.search raises, it returns the envelope
\* {success: false, message}, with no results and no answer.
C20_SearchNeverRaises ==
    [][/\ last'.op = "ragSearch" => last'.phase # "raised"
       /\ (RagEmbedFail("c2") \/ RagGenerateFail("c2")) => IsFailureEnvelope(last')
       /\ \A queryEmbedding \in RagVectors :
             (/\ RagSearchRanked("c2", queryEmbedding)
              /\ \A sorted \in SortOutcomes(ScoresOf(stores[calls["c2"].store],
                                                       queryEmbedding)) :
                    ~TopResults(stores[calls["c2"].store], sorted,
                                calls["c2"].topK).ok)
             => IsFailureEnvelope(last')]_vars

\* C20 witness: generateText has just failed for a search that had ranked a
\* result, and the failure envelope was returned
C20_Witness ==
    /\ last.op = "ragSearch" /\ last.phase = "returned" /\ ~last.ok
    /\ last.nGenerate = 1
    /\ last.message = ErrorDuringSearch(GenerationError)
    /\ size(stores[last.inst]) >= 1

--------------------------------------------------------------------------
(* Claims about the envelopes of RAGService.search, checked under SpecRag *)

\* The envelope {success: true, results: [], answer: null,
\* message: "No documents found"}
IsNoDocumentsEnvelope(l) ==
    /\ l.phase = "returned"
    /\ l.ok = TRUE
    /\ l.keys = {"success", "message", "results", "answer"}
    /\ l.results = <<>>
    /\ l.answer = NullAnswer
    /\ l.message = "No documents found"

\* What store.search may yield for the search that caller c awaits, were its
\* query embedding queryEmbedding
RankingsOf(c, queryEmbedding) ==
    {TopResults(stores[calls[c].store], sorted, calls[c].topK) :
        sorted \in SortOutcomes(ScoresOf(stores[calls[c].store], queryEmbedding))}

\* C21: when store.search yields zero results, for an empty store or a
\* ranking cut to nothing, RAGService.search returns {success: true,
\* results: [], answer: null, message: "No documents found"} and has not called
\* generateText, whatever the query, topK and generateAnswer.
C21_NoDocuments ==
    [][/\ \A s \in Instances, query \in Queries, topK \in RagTopKs,
             generateAnswer \in BOOLEAN :
             (RagSearchStart("c2", s, query, topK, generateAnswer)
                /\ size(stores[s]) = 0)
             => (IsNoDocumentsEnvelope(last') /\ last'.nGenerate = 0
                   /\ calls'["c2"] = Idle)
       /\ \A queryEmbedding \in RagVectors :
             (RagSearchRanked("c2", queryEmbedding)
                /\ \A r \in RankingsOf("c2", queryEmbedding) :
                      r.ok /\ r.results = <<>>)
             => (IsNoDocumentsEnvelope(last') /\ last'.nGenerate = 0
                   /\ calls'["c2"] = Idle)]_vars

\* C21 witness: a search with generateAnswer true and topK 0 on a store that
\* holds a document has just returned the zero-result envelope
C21_Witness ==
    /\ last.op = "ragSearch" /\ IsNoDocumentsEnvelope(last)
    /\ last.nEmbed = 1 /\ last.topK = 0
    /\ size(stores[last.inst]) >= 1

\* C22: when store.search yields results and no capability fails,
\* RAGService.search returns success true with these results in their ranked
\* order and with the stats the store has at the moment of the return; with
\* generateAnswer false the answer is null and generateText is not called, with
\* generateAnswer true the answer is the text generateText returned.
C22_SearchSuccess ==
    [][/\ \A queryEmbedding \in RagVectors :
             (RagSearchRanked("c2", queryEmbedding)
                /\ calls'["c2"].op \in {"ragReturn", "ragGenerate"})
             => /\ \E r \in RankingsOf("c2", queryEmbedding) :
                      r.ok /\ calls'["c2"].results = r.results
                /\ calls'["c2"].op = "ragGenerate" <=> calls["c2"].generateAnswer
                /\ last'.nGenerate = (IF calls["c2"].generateAnswer THEN 1 ELSE 0)
       /\ RagSearchReturn("c2")
             => /\ last'.phase = "returned" /\ last'.ok = TRUE
                /\ last'.keys = {"success", "results", "answer", "stats"}
                /\ last'.results = calls["c2"].results
                /\ last'.answer = NullAnswer
                /\ last'.nGenerate = 0
                /\ last'.stats = getStats(stores'[calls["c2"].store])
       /\ \A answer \in Answers :
             RagGenerateDone("c2", answer)
             => /\ last'.phase = "returned" /\ last'.ok = TRUE
                /\ last'.keys = {"success", "results", "answer", "stats"}
                /\ last'.results = calls["c2"].results
                /\ last'.answer = answer
                /\ last'.nGenerate = 1
                /\ last'.stats = getStats(stores'[calls["c2"].store])]_vars

\* C22 witness: a search has just returned two ranked results with a generated
\* answer, and stats of a store that was emptied while the answer was awaited
C22_Witness ==
    /\ last.op = "ragSearch" /\ last.phase = "returned" /\ last.ok
    /\ Len(last.results) = 2
    /\ ScoreDiff(last.results[1].score, last.results[2].score) = "pos"
    /\ last.answer \in Answers
    /\ last.stats.documentCount = 0

--------------------------------------------------------------------------
(* Claims about the similarity score, checked under SpecStore *)

\* C26: a search that returns gives no result an undefined (NaN) score: the
\* score of a pair with a zero-magnitude vector is 0.
C26_ZeroMagnitudeScore ==
    (last.op = "search" /\ last.phase = "returned") =>
        \A i \in 1..Len(last.results) : ~IsNaN(last.results[i].score)

\* C27: for the query embedding q and every stored embedding e that a search
\* scores, sim(q, e) == sim(e, q), and sim(e, e) is 1 for a non-zero e.
C27_Symmetric ==
    [][\A c \in Callers, q \in Vectors :
          SearchComplete(c, q) =>
              LET embeddings == stores[calls[c].store].index.embeddings
              IN  \A i \in 1..Len(embeddings) :
                     LET e == embeddings[i]
                     IN  /\ ScoreDiff(cosineSimilarity(q, e),
                                       cosineSimilarity(e, q)) = "zero"
                         /\ Dot(e, e) # 0 =>
                               /\ ~IsNaN(cosineSimilarity(e, e))
                               /\ cosineSimilarity(e, e).n = cosineSimilarity(e, e).d]_vars

--------------------------------------------------------------------------
(* A claim about clear(), checked under SpecSessions *)

\* C28: after clear() on a store its size() is 0, hasDocument is false for
\* every id and both index arrays are empty; the registry is as before: every
\* session maps to the instance it mapped to and getSessionCount() is the same.
C28_Clear ==
    [][last'.op = "clear" =>
          /\ size(stores'[last'.inst]) = 0
          /\ \A id \in AllIds : ~hasDocument(stores'[last'.inst], id)
          /\ stores'[last'.inst].index.ids = <<>>
          /\ stores'[last'.inst].index.embeddings = <<>>
          /\ sessionStores' = sessionStores
          /\ globalStore' = globalStore
          /\ getSessionCount(sessionStores') = getSessionCount(sessionStores)]_vars

\* C28 witness: clear() has just emptied the store of 's1', which held a
\* document, and 's1' still maps to that store
C28_Witness ==
    /\ last.op = "clear"
    /\ ghost[last.inst].returned # {}
    /\ "s1" \in DOMAIN sessionStores /\ sessionStores["s1"] = last.inst
    /\ IsEmptyStore(stores[last.inst])

--------------------------------------------------------------------------
(* A claim about getStats(), checked under SpecStats *)

\* The creation timestamps of the documents of store st
TimestampsOf(st) == {st.documents[id].timestamp : id \in DOMAIN st.documents}

\* The sum of the byte lengths of the contents with the ids of a set
RECURSIVE SumOfContents(_, _)
SumOfContents(st, ids) ==
    IF ids = {} THEN 0
    ELSE LET id == CHOOSE x \in ids : TRUE
         IN  ByteLength(st.documents[id].content) + SumOfContents(st, ids \ {id})

\* C29: getStats() reports documentCount = size() and totalSize = the sum of
\* the byte lengths of the stored contents; oldestDocument and newestDocument
\* are both null exactly when the store is empty, and otherwise the least and
\* the greatest creation timestamp, oldestDocument <= newestDocument.
C29_Stats ==
    last.op = "getStats" =>
        LET st == stores[last.inst]
            stats == last.stats
        IN  /\ stats.documentCount = size(st)
            /\ stats.totalSize = SumOfContents(st, DOMAIN st.documents)
            /\ (stats.oldestDocument = Null) <=> (size(st) = 0)
            /\ (stats.newestDocument = Null) <=> (size(st) = 0)
            /\ size(st) > 0 =>
                  /\ stats.oldestDocument \in TimestampsOf(st)
                  /\ stats.newestDocument \in TimestampsOf(st)
                  /\ \A x \in TimestampsOf(st) :
                        stats.oldestDocument <= x /\ x <= stats.newestDocument
                  /\ stats.oldestDocument <= stats.newestDocument

\* C29 witness: getStats() has just been read on a store of two documents of
\* different sizes, the one added later carrying the earlier timestamp
C29_Witness ==
    /\ last.op = "getStats"
    /\ last.stats.documentCount = 2
    /\ last.stats.totalSize = 4
    /\ last.stats.oldestDocument = 1000 /\ last.stats.newestDocument = 2000
    /\ LET st == stores[last.inst]
       IN  /\ Len(st.index.ids) = 2
           /\ st.documents[st.index.ids[1]].timestamp = 2000
           /\ st.documents[st.index.ids[2]].timestamp = 1000

--------------------------------------------------------------------------
(* Ingestion through RAGService *)

IsIngest(l) == l.op \in {"ragAdd", "ragBulk"}

\* C23: an ingestion call (RAGService.addDocument or bulkAddDocuments) in which
\* a createEmbedding call rejects ends with a raised error, and returns no
\* envelope, neither one with success true nor one with success false
C23_IngestionFailureRaises ==
    (IsIngest(last) /\ last.rejected) =>
        /\ last.phase = "raised"
        /\ last.keys = {}
        /\ \A c \in Callers : calls[c].op = "idle"

\* The embedding of the second chunk of a chunked addDocument was rejected
C23_Witness ==
    /\ last.op = "ragAdd"
    /\ last.rejected
    /\ last.useChunks
    /\ Len(last.added) = 1
    /\ last.phase = "raised"

\* The number of words of a content: its maximal runs of characters other
\* than the space
WordCount(content) ==
    Cardinality({k \in 1..Len(Split(content)) : Split(content)[k] # <<>>})

\* Whether a content is empty or made of spaces only
Blank(content) == \A k \in 1..Len(content) : content[k] = " "

\* C24: addDocument with useChunks true and chunkSize C >= 1 on a content of N
\* words returns the ids of exactly ceil(N/C) inserted documents, in chunk order;
\* the i-th (from 0) was inserted with chunkIndex i and totalChunks ceil(N/C),
\* every chunk but the last has exactly C words, and every key of the caller's
\* metadata is on every chunk
C24_Chunks ==
    (/\ last.op = "ragAdd"
     /\ last.phase = "returned"
     /\ last.useChunks
     /\ last.chunkSize >= 1) =>
        LET N == WordCount(last.input[1].content)
            C == last.chunkSize
            total == (N + C - 1) \div C
        IN  /\ Len(last.documentIds) = total
            /\ Len(last.added) = total
            /\ size(stores[last.inst]) = last.sizeBefore + total
            /\ \A j \in 1..Len(last.added) :
                  /\ last.added[j].metadata["chunkIndex"] = j - 1
                  /\ last.added[j].metadata["totalChunks"] = total
                  /\ j < Len(last.added) => WordCount(last.added[j].content) = C
                  /\ DOMAIN last.input[1].metadata \subseteq
                        DOMAIN last.added[j].metadata

\* The entries of `documents` whose content is not blank, in input order
RECURSIVE NonBlank(_)
NonBlank(documents) ==
    IF Len(documents) = 0 THEN <<>>
    ELSE IF Blank(Head(documents).content) THEN NonBlank(Tail(documents))
    ELSE <<Head(documents)>> \o NonBlank(Tail(documents))

\* C25: bulkAddDocuments returns without raising (when no embedding fails),
\* with exactly one id for each entry whose content is not blank, the documents
\* inserted being those entries in input order, and the size of the store has
\* grown by that number
C25_BulkSkipsBlank ==
    (last.op = "ragBulk" /\ ~last.rejected /\ last.phase # "start") =>
        LET kept == NonBlank(last.input)
        IN  /\ last.phase = "returned"
            /\ Len(last.documentIds) = Len(kept)
            /\ Len(last.added) = Len(kept)
            /\ \A j \in 1..Len(last.added) :
                  last.added[j].content = kept[j].content
            /\ size(stores[last.inst]) = last.sizeBefore + Len(kept)


--------------------------------------------------------------------------
(* Claims about capability calls and the frame of search, checked under SpecRag *)

C32_SearchReadOnly ==
    [][last'.op \in {"search", "ragSearch"}
          => /\ stores' = stores
             /\ globalStore' = globalStore
             /\ sessionStores' = sessionStores]_vars

\* C32 witness: a search has just returned two results from a store whose index
\* holds two different entries
C32_Witness ==
    /\ last.op = "search"
    /\ last.phase = "returned"
    /\ Len(last.results) = 2
    /\ Len(stores[last.inst].index.ids) = 2
    /\ stores[last.inst].index.ids[1] # stores[last.inst].index.ids[2]

--------------------------------------------------------------------------
(* Claims about one store under concurrent callers, checked under SpecStore *)

\* Whether the index of a store holds an id that has no document
Desynchronized(st) ==
    \E i \in 1..Len(st.index.ids) : st.index.ids[i] \notin DOMAIN st.documents

\* C33: a search that ends while the index of its store holds an id without
\* document raises an error; it returns no result list, empty or not
C33_DesyncRaises ==
    (/\ last.op = "search"
     /\ last.phase \in {"returned", "raised"}
     /\ Desynchronized(stores[last.inst])) => last.phase = "raised"

--------------------------------------------------------------------------
(* Claims about chunked ingestion, checked under SpecIngest *)

\* C34: when addDocument with useChunks true raises because the embedding of a
\* chunk was rejected, the store holds what it held before the call: as many
\* documents and index entries, and none that the call inserted
C34_NoPartialDocument ==
    (/\ last.op = "ragAdd"
     /\ last.useChunks
     /\ last.rejected) =>
        /\ Len(last.added) = 0
        /\ size(stores[last.inst]) = last.sizeBefore
        /\ Len(stores[last.inst].index.ids) = last.sizeBefore
        /\ \A id \in DOMAIN stores[last.inst].documents :
              "chunkIndex" \notin DOMAIN stores[last.inst].documents[id].metadata

\* C35: the loop of addDocument with useChunks true comes to an end: every
\* time it goes round, the loop counter i has moved towards words.length, so
\* that the number of store.addDocument calls is bounded by the number of words
C35_ChunkLoopTerminates ==
    [][\A c \in Callers :
          (calls[c].op = "ragAdd" /\ calls'[c].op = "ragAdd")
              => /\ calls'[c].i > calls[c].i
                 /\ Len(calls'[c].added) <= Len(Split(calls'[c].input[1].content))]_vars

\* The documents of store st that carry one of the ids, in chunkIndex order
RECURSIVE ChunksFrom(_, _, _)
ChunksFrom(st, ids, k) ==
    IF \A id \in ids : st.documents[id].metadata["chunkIndex"] < k THEN <<>>
    ELSE LET here == {id \in ids : st.documents[id].metadata["chunkIndex"] = k}
         IN  (IF here = {} THEN <<>>
              ELSE <<st.documents[CHOOSE id \in here : TRUE].content>>)
                 \o ChunksFrom(st, ids, k + 1)

\* C40: after addDocument with useChunks true and chunkSize >= 1 has returned,
\* the contents of the documents the store holds under the returned ids, joined
\* in chunkIndex order with single spaces, are the original content
C40_ChunksRoundTrip ==
    (/\ last.op = "ragAdd"
     /\ last.phase = "returned"
     /\ last.useChunks
     /\ last.chunkSize >= 1) =>
        /\ Range(last.documentIds) \subseteq DOMAIN stores[last.inst].documents
        /\ Join(ChunksFrom(stores[last.inst], Range(last.documentIds), 0))
              = last.input[1].content

--------------------------------------------------------------------------
(* Claims about removal and growth of one store, checked under SpecStore *)

\* The index entry (id and embedding) at position i
IndexEntry(st, i) == <<st.index.ids[i], st.index.embeddings[i]>>

\* Whether the index of `new` is the index of `old` without its entry at pos
WithoutEntry(old, new, pos) ==
    /\ Len(new.index.ids) = Len(old.index.ids) - 1
    /\ Len(new.index.embeddings) = Len(old.index.embeddings) - 1
    /\ \A i \in 1..Len(new.index.ids) :
          IndexEntry(new, i) = IndexEntry(old, IF i < pos THEN i ELSE i + 1)

\* C37: removeDocument(id) leaves every other document in the map as it was
\* and adds none; the index loses at most the first entry of the id, and the
\* entries that remain keep their order, each id with the embedding it stood
\* with before
C37_RemoveFrame ==
    [][last'.op = "removeDocument" =>
          LET old == stores[last'.inst]
              new == stores'[last'.inst]
              id == last'.id
          IN  /\ DOMAIN new.documents = (DOMAIN old.documents) \ {id}
              /\ \A x \in DOMAIN new.documents : new.documents[x] = old.documents[x]
              /\ IF id \in DOMAIN old.documents /\ id \in Range(old.index.ids)
                 THEN WithoutEntry(old, new, IndexOf(old.index.ids, id))
                 ELSE new.index = old.index
              /\ \A i \in Instances \ {last'.inst} : stores'[i] = stores[i]]_vars

\* C37 witness: removeDocument has just removed the first of two documents, and
\* the other is in the index with its own embedding
C37_Witness ==
    /\ last.op = "removeDocument"
    /\ last.ok
    /\ Len(stores[last.inst].index.ids) = 1
    /\ stores[last.inst].index.ids[1] # last.id
    /\ stores[last.inst].index.ids[1] \in DOMAIN stores[last.inst].documents
    /\ stores[last.inst].documents[stores[last.inst].index.ids[1]].embedding
          = stores[last.inst].index.embeddings[1]
    /\ ghost[last.inst].returned = {last.id, stores[last.inst].index.ids[1]}

\* C39: the store has no maximum: an addDocument whose embedding call succeeds
\* adds its document, size() grows by exactly one whatever it was, and every
\* document the store held is still there, as it was
C39_NoMaximum ==
    [][(last'.op = "addDocument" /\ last'.phase = "returned") =>
          LET old == stores[last'.inst]
              new == stores'[last'.inst]
          IN  /\ size(new) = size(old) + 1
              /\ hasDocument(new, last'.id)
              /\ \A x \in DOMAIN old.documents :
                    x \in DOMAIN new.documents /\ new.documents[x] = old.documents[x]]_vars

--------------------------------------------------------------------------
(* Claims about session generations, checked under SpecRegistry *)

\* C36: an addDocument that was in flight on an instance when clearSession
\* took the instance out of the registry completes on an instance that no
\* session id is registered with; and the store a session id is registered
\* with is empty until an addDocument has completed on it
C36_GenerationsIsolated ==
    /\ (last.op = "addDocument" /\ last.phase = "returned" /\ last.stale) =>
          \A k \in DOMAIN sessionStores : sessionStores[k] # last.inst
    /\ \A k \in DOMAIN sessionStores :
          size(stores[sessionStores[k]]) > 0 => ghost[sessionStores[k]].returned # {}

\* C36 witness: an addDocument begun before clearSession('s1') has just
\* completed on the evicted instance, while 's1' is registered again with a
\* new instance, which is empty
C36_Witness ==
    /\ last.op = "addDocument"
    /\ last.phase = "returned"
    /\ last.stale
    /\ hasDocument(stores[last.inst], last.id)
    /\ "s1" \in DOMAIN sessionStores
    /\ sessionStores["s1"] # last.inst
    /\ size(stores[sessionStores["s1"]]) = 0
    /\ given["s1"] = sessionStores["s1"]

--------------------------------------------------------------------------
(* Claims about the helpers of the integration, checked under SpecHelpers *)

\* C38: a call of onInput, createRAGContext, searchRAG or clearRAGSession with
\* a session id other than 'global' goes through getStore.  When the id is not
\* registered, it is registered with a new, empty store, getSessionCount() is
\* one more, every other registration stays, and the helper returns the empty
\* result at once ([] for searchRAG and for the results of onInput, '' for
\* createRAGContext).  When the id is registered, the registry is left as it
\* was: the id keeps its instance.  The later steps of a helper leave the
\* registry as it was too.
C38_HelpersUseGetStore ==
    [][(last'.op \in HelperNames \cup {"clearRAGSession"}
            /\ last'.sessionId \in SessionNames) =>
          IF last'.phase = "returned" /\ last'.nEmbed = 0
                /\ last'.sessionId \notin DOMAIN sessionStores
          THEN /\ DOMAIN sessionStores' = (DOMAIN sessionStores) \cup {last'.sessionId}
               /\ getSessionCount(sessionStores') = getSessionCount(sessionStores) + 1
               /\ \A k \in DOMAIN sessionStores : sessionStores'[k] = sessionStores[k]
               /\ globalStore' = globalStore
               /\ sessionStores'[last'.sessionId] = Len(stores) + 1
               /\ last'.inst = Len(stores) + 1
               /\ IsEmptyStore(stores'[last'.inst])
               /\ \A i \in Instances : stores'[i] = stores[i]
               /\ last'.results = <<>>
               /\ last'.answer = ""
               /\ last'.totalDocuments = 0
          ELSE /\ sessionStores' = sessionStores
               /\ globalStore' = globalStore
               /\ Len(stores') = Len(stores)
               /\ (last'.phase = "start" \/ last'.nEmbed = 0)
                    => last'.inst = sessionStores[last'.sessionId]]_vars

\* C38 witness: searchRAG has just registered 's2' with a new, empty store and
\* returned [], while 's1' is registered with a store that holds a document
C38_Witness ==
    /\ last.op = "searchRAG"
    /\ last.sessionId = "s2"
    /\ last.phase = "returned"
    /\ last.nEmbed = 0
    /\ last.results = <<>>
    /\ sessionStores["s2"] = last.inst
    /\ last.inst = Len(stores)
    /\ "s1" \in DOMAIN sessionStores
    /\ size(stores[sessionStores["s1"]]) = 1


==========================================================================
